---- MODULE Spec2Model ----
(***************************************************************************)
(* A model of the MCP protocol test harness (test-mcp-protocol.py): the    *)
(* response validators, the per-case classification, and the stdio         *)
(* session that drives the ordered test-case list through one server       *)
(* process.                                                                *)
(***************************************************************************)
EXTENDS Integers, Sequences, FiniteSets, TLC

(***************************************************************************)
(* Bounds of the model.                                                    *)
(***************************************************************************)
\* the largest number of keys of a drawn 'result' object
MaxResultKeys == 4
\* the number of leading test cases a modelled stdio session drives
MaxRequests == 3
\* the number of leading test cases a modelled run of main drives
MaxRunCases == 2

(***************************************************************************)
(* Python / JSON values.  json.loads maps null to None, true/false to      *)
(* bool, numbers to int or float, strings to str, arrays to list and       *)
(* objects to dict.  A float is i + 1/2 when half, else i.                 *)
(***************************************************************************)
None == [t |-> "null"]
JBool(b) == [t |-> "bool", b |-> b]
JInt(n) == [t |-> "int", i |-> n]
JFloat(n, h) == [t |-> "float", i |-> n, half |-> h]
JStr(s) == [t |-> "str", s |-> s]
JList(q) == [t |-> "list", q |-> q]
JObj(f) == [t |-> "obj", f |-> f]
EmptyDict == JObj([k \in {} |-> None])

IsDict(x) == x.t = "obj"
IsNumber(x) == x.t \in {"bool", "int", "float"}
\* twice the numeric value of a bool, int or float
Twice(x) ==
  CASE x.t = "bool" -> (IF x.b THEN 2 ELSE 0)
    [] x.t = "int" -> 2 * x.i
    [] x.t = "float" -> 2 * x.i + (IF x.half THEN 1 ELSE 0)

\* Python's == on decoded JSON values: bool, int and float compare by
\* numeric value (1 == True == 1.0); everything else by type and content.
RECURSIVE PyEq(_, _)
PyEq(a, b) ==
  IF IsNumber(a) /\ IsNumber(b) THEN Twice(a) = Twice(b)
  ELSE IF a.t # b.t THEN FALSE
  ELSE IF a.t = "null" THEN TRUE
  ELSE IF a.t = "str" THEN a.s = b.s
  ELSE IF a.t = "list" THEN
    /\ Len(a.q) = Len(b.q)
    /\ \A n \in 1..Len(a.q) : PyEq(a.q[n], b.q[n])
  ELSE
    /\ DOMAIN a.f = DOMAIN b.f
    /\ \A k \in DOMAIN a.f : PyEq(a.f[k], b.f[k])

\* isinstance(x, int): bool is a subclass of int
IsInstanceInt(x) == x.t \in {"int", "bool"}
IsInstanceStr(x) == x.t = "str"
IsInstanceList(x) == x.t = "list"

\* key in dict
HasKey(d, k) == k \in DOMAIN d.f
\* dict.get(key): None when the key is absent
DictGet(d, k) == IF HasKey(d, k) THEN d.f[k] ELSE None

Digit == <<"0", "1", "2", "3", "4", "5", "6", "7", "8", "9">>
RECURSIVE NatStr(_)
NatStr(n) == IF n < 10 THEN Digit[n + 1] ELSE NatStr(n \div 10) \o Digit[(n % 10) + 1]
IntStr(n) == IF n < 0 THEN "-" \o NatStr(0 - n) ELSE NatStr(n)

\* type(x).__name__
TypeName(x) ==
  CASE x.t = "null" -> "NoneType"
    [] x.t = "bool" -> "bool"
    [] x.t = "int" -> "int"
    [] x.t = "float" -> "float"
    [] x.t = "str" -> "str"
    [] x.t = "list" -> "list"
    [] x.t = "obj" -> "dict"

\* repr(x) of the values an id can take here
RECURSIVE PyRepr(_)
PyRepr(x) ==
  CASE x.t = "null" -> "None"
    [] x.t = "bool" -> (IF x.b THEN "True" ELSE "False")
    [] x.t = "int" -> IntStr(x.i)
    [] x.t = "float" -> IntStr(x.i) \o (IF x.half THEN ".5" ELSE ".0")
    [] x.t = "str" -> "'" \o x.s \o "'"
    [] x.t = "list" /\ x.q = <<>> -> "[]"
    [] x.t = "list" /\ Len(x.q) = 1 -> "[" \o PyRepr(x.q[1]) \o "]"
    [] x.t = "obj" /\ DOMAIN x.f = {} -> "{}"

\* sep.join(parts)
RECURSIVE Join(_, _)
Join(sep, parts) ==
  IF parts = <<>> THEN ""
  ELSE IF Len(parts) = 1 THEN parts[1]
  ELSE parts[1] \o sep \o Join(sep, Tail(parts))

\* str.startswith
StartsWith(s, prefix) ==
  /\ Len(s) >= Len(prefix)
  /\ SubSeq(s, 1, Len(prefix)) = prefix

\* every key name of the model, in the order of Python's string comparison
SortedNames ==
  <<"capabilities", "code", "content", "contents", "data", "error", "id",
    "isError", "jsonrpc", "message", "method", "params", "protocolVersion",
    "resources", "result", "serverInfo", "tools", "x-", "x-vendor", "xtra">>

\* sorted(names) for a set of key names
Sorted(names) == SelectSeq(SortedNames, LAMBDA n : n \in names)

Range(q) == {q[n] : n \in 1..Len(q)}
\* the orders in which iterating a set of strings can yield its members
\* (the order depends on the string hash seed of the run)
Orders(S) == {q \in [1..Cardinality(S) -> S] : Range(q) = S}

(***************************************************************************)
(* The test-case specification and the outcome record (dataclass TestCase) *)
(***************************************************************************)
PASS == "PASS"
FAIL == "FAIL"
ERROR == "ERROR"

\* TestCase(name, request, expected_fields, is_notification,
\* should_have_response) with the dataclass defaults of the other fields
TestCase(name, request, expected_fields, is_notification, should_have_response) ==
  [name |-> name,
   request |-> request,
   expected_fields |-> expected_fields,
   is_notification |-> is_notification,
   should_have_response |-> should_have_response,
   result |-> ERROR,
   response |-> None,
   error_message |-> None,
   execution_time |-> JFloat(0, FALSE)]

\* a request dict: jsonrpc, id (when has_id), method, params (when has_params)
Request(has_id, id, method, has_params, params) ==
  JObj([k \in {"jsonrpc", "method"}
             \cup (IF has_id THEN {"id"} ELSE {})
             \cup (IF has_params THEN {"params"} ELSE {}) |->
        CASE k = "jsonrpc" -> JStr("2.0")
          [] k = "id" -> id
          [] k = "method" -> JStr(method)
          [] k = "params" -> params])

\* params of a tools/call of run_sql
RunSql(arguments) ==
  JObj("name" :> JStr("run_sql") @@ "arguments" :> JObj(arguments))

ResultFields == <<"jsonrpc", "id", "result">>
ErrorFields == <<"jsonrpc", "id", "error", "error.code", "error.message">>
InsertSql == JStr("INSERT INTO protocol_test VALUES (?, ?)")

create_test_cases ==
  << TestCase("Initialize Protocol",
       Request(TRUE, JInt(1), "initialize", TRUE,
         JObj("protocolVersion" :> JStr("2025-11-25")
              @@ "capabilities" :> JObj("tools" :> EmptyDict @@ "resources" :> EmptyDict)
              @@ "clientInfo" :> JObj("name" :> JStr("test-client")
                                      @@ "version" :> JStr("1.0.0")))),
       ResultFields \o <<"result.protocolVersion", "result.capabilities", "result.serverInfo">>,
       FALSE, TRUE),
     TestCase("Send Initialized Notification",
       Request(FALSE, None, "notifications/initialized", FALSE, None),
       <<>>, TRUE, FALSE),
     TestCase("Ping Test",
       Request(TRUE, JInt(2), "ping", FALSE, None),
       ResultFields, FALSE, TRUE),
     TestCase("List Tools",
       Request(TRUE, JInt(3), "tools/list", TRUE, EmptyDict),
       ResultFields \o <<"result.tools">>, FALSE, TRUE),
     TestCase("List Resources",
       Request(TRUE, JInt(4), "resources/list", TRUE, EmptyDict),
       ResultFields \o <<"result.resources">>, FALSE, TRUE),
     TestCase("Create Table (run_sql)",
       Request(TRUE, JInt(3), "tools/call", TRUE,
         RunSql("sql" :> JStr("CREATE TABLE protocol_test (id INT, name VARCHAR(255))"))),
       ResultFields \o <<"result.content">>, FALSE, TRUE),
     TestCase("Execute Select (run_sql)",
       Request(TRUE, JInt(5), "tools/call", TRUE,
         RunSql("sql" :> JStr("SELECT 1 as test_value, 'Hello MCP' as message")
                @@ "maxRows" :> JInt(10))),
       ResultFields \o <<"result.content">>, FALSE, TRUE),
     TestCase("Describe Table (describe_table)",
       Request(TRUE, JInt(4), "tools/call", TRUE,
         JObj("name" :> JStr("describe_table")
              @@ "arguments" :> JObj("table_name" :> JStr("protocol_test")))),
       ResultFields \o <<"result.content">>, FALSE, TRUE),
     TestCase("Parameterized Insert (run_sql)",
       Request(TRUE, JInt(11), "tools/call", TRUE,
         RunSql("sql" :> InsertSql
                @@ "params" :> JList(<<JInt(1), JStr("Alice Smith")>>))),
       ResultFields \o <<"result.content">>, FALSE, TRUE),
     TestCase("Parameterized Insert with Null (run_sql)",
       Request(TRUE, JInt(13), "tools/call", TRUE,
         RunSql("sql" :> InsertSql @@ "params" :> JList(<<JInt(2), None>>))),
       ResultFields \o <<"result.content">>, FALSE, TRUE),
     TestCase("Mixed Parameter Types (run_sql)",
       Request(TRUE, JInt(16), "tools/call", TRUE,
         RunSql("sql" :> InsertSql
                @@ "params" :> JList(<<JInt(3), JStr("Bob Jones")>>))),
       ResultFields \o <<"result.content">>, FALSE, TRUE),
     TestCase("Read Database Info Resource",
       Request(TRUE, JInt(6), "resources/read", TRUE,
         JObj("uri" :> JStr("database://info"))),
       ResultFields \o <<"result.contents">>, FALSE, TRUE),
     TestCase("Error Test - Invalid Method",
       Request(TRUE, JInt(7), "invalid/method", TRUE, EmptyDict),
       ErrorFields, FALSE, TRUE),
     TestCase("Error Test - Empty SQL",
       Request(TRUE, JInt(8), "tools/call", TRUE,
         RunSql("sql" :> JStr("") @@ "maxRows" :> JInt(10))),
       ErrorFields, FALSE, TRUE),
     TestCase("ID Test - Null ID",
       Request(TRUE, None, "tools/list", TRUE, EmptyDict),
       ResultFields, FALSE, TRUE),
     TestCase("ID Test - String ID",
       Request(TRUE, JStr("test-string-id"), "tools/list", TRUE, EmptyDict),
       ResultFields, FALSE, TRUE),
     TestCase("Ping Test - String ID",
       Request(TRUE, JStr("ping-test-string"), "ping", FALSE, None),
       ResultFields, FALSE, TRUE),
     TestCase("Ping Test - Null ID",
       Request(TRUE, None, "ping", FALSE, None),
       ResultFields, FALSE, TRUE) >>

(***************************************************************************)
(* The validators.  A call either returns its list of violation messages   *)
(* or raises; exc is str(e) of the exception raised.                       *)
(***************************************************************************)
Returns(errors) == [raised |-> FALSE, errors |-> errors, exc |-> ""]
Raises(exc) == [raised |-> TRUE, errors |-> <<>>, exc |-> exc]
\* AttributeError for obj.attr on a value that has no such attribute
NoAttribute(x, attr) ==
  Raises("'" \o TypeName(x) \o "' object has no attribute '" \o attr \o "'")
\* TypeError for `key in x` on a value that is no container
NotIterable(x) ==
  Raises("argument of type '" \o TypeName(x) \o "' is not iterable")

\* IdErrors with the comparison skipped when expected_id is None
IdErrors_OnlyWhenExpected(response, expected_id) ==
  IF HasKey(response, "id") THEN
    IF expected_id # None /\ ~PyEq(expected_id, response.f["id"])
    THEN <<"ID mismatch: expected " \o PyRepr(expected_id)
           \o ", got " \o PyRepr(response.f["id"])>>
    ELSE <<>>
  ELSE
    IF expected_id # None
    THEN <<"Missing 'id' field, expected " \o PyRepr(expected_id)>>
    ELSE <<>>

\* the violation about the id of validate_json_rpc
IdErrors(response, expected_id) ==
  IF HasKey(response, "id") THEN
    IF ~PyEq(expected_id, response.f["id"])
    THEN <<"ID mismatch: expected " \o PyRepr(expected_id)
           \o ", got " \o PyRepr(response.f["id"])>>
    ELSE <<>>
  ELSE
    IF expected_id # None
    THEN <<"Missing 'id' field, expected " \o PyRepr(expected_id)>>
    ELSE <<>>

\* ResultErrorErrors without the check for both keys
ResultErrorErrors_NeitherOnly(response) ==
  IF ~HasKey(response, "result") /\ ~HasKey(response, "error")
  THEN <<"Response must have either 'result' or 'error'">>
  ELSE <<>>

\* the violation about the presence of result and error
ResultErrorErrors(response) ==
  IF ~HasKey(response, "result") /\ ~HasKey(response, "error")
  THEN <<"Response must have either 'result' or 'error'">>
  ELSE IF HasKey(response, "result") /\ HasKey(response, "error")
  THEN <<"Response cannot have both 'result' and 'error'">>
  ELSE <<>>

\* the violations about the structure of the error value
ErrorStructureErrors(response) ==
  IF ~HasKey(response, "error") THEN <<>>
  ELSE LET error == response.f["error"] IN
    IF ~IsDict(error) THEN <<"Error field must be an object">>
    ELSE
      (IF ~HasKey(error, "code") \/ ~IsInstanceInt(error.f["code"])
       THEN <<"Error object missing or invalid 'code' field">> ELSE <<>>)
      \o
      (IF ~HasKey(error, "message") \/ ~IsInstanceStr(error.f["message"])
       THEN <<"Error object missing or invalid 'message' field">> ELSE <<>>)

allowed_root_fields == {"jsonrpc", "id", "result", "error"}

\* the violation about extra top-level keys
ExtraRootErrors(response) ==
  LET extra_fields == DOMAIN response.f \ allowed_root_fields IN
  IF extra_fields # {}
  THEN <<"Unexpected extra fields in response: " \o Join(", ", Sorted(extra_fields))>>
  ELSE <<>>

validate_json_rpc(response, expected_id) ==
  IF ~IsDict(response) THEN NoAttribute(response, "get")
  ELSE Returns(
    (IF ~PyEq(DictGet(response, "jsonrpc"), JStr("2.0"))
     THEN <<"Missing or invalid 'jsonrpc' field">> ELSE <<>>)
    \o IdErrors(response, expected_id)
    \o ResultErrorErrors(response)
    \o ErrorStructureErrors(response)
    \o ExtraRootErrors(response))

\* the position of the first '.' of s at or after position n, 0 when none
RECURSIVE FindDot(_, _)
FindDot(s, n) ==
  IF n > Len(s) THEN 0
  ELSE IF SubSeq(s, n, n) = "." THEN n
  ELSE FindDot(s, n + 1)

\* s.split('.')
RECURSIVE Split(_)
Split(s) ==
  LET d == FindDot(s, 1) IN
  IF d = 0 THEN <<s>>
  ELSE <<SubSeq(s, 1, d - 1)>> \o Split(SubSeq(s, d + 1, Len(s)))

\* the walk of one dotted path: TRUE when every part is found
RECURSIVE PathPresent(_, _)
PathPresent(current, parts) ==
  IF parts = <<>> THEN TRUE
  ELSE IF IsDict(current) /\ HasKey(current, Head(parts))
  THEN PathPresent(current.f[Head(parts)], Tail(parts))
  ELSE FALSE

RECURSIVE FieldErrors(_, _)
FieldErrors(response, expected_fields) ==
  IF expected_fields = <<>> THEN <<>>
  ELSE
    (IF PathPresent(response, Split(Head(expected_fields))) THEN <<>>
     ELSE <<"Missing expected field: " \o Head(expected_fields)>>)
    \o FieldErrors(response, Tail(expected_fields))

validate_expected_fields(response, expected_fields) ==
  Returns(FieldErrors(response, expected_fields))

\* is_vendor_extension with the prefix cut to "x"
is_vendor_extension_x(field_name) == StartsWith(field_name, "x")

is_vendor_extension(field_name) == StartsWith(field_name, "x-")

\* the keys of result that are neither allowed nor vendor extensions
ExtraFields(result, allowed_fields) ==
  {f \in DOMAIN result.f : f \notin allowed_fields /\ ~is_vendor_extension(f)}

\* the 'unexpected fields' violation of one method
UnexpectedErrors(result, allowed_fields, text) ==
  LET extra_fields == ExtraFields(result, allowed_fields) IN
  IF extra_fields # {}
  THEN <<text \o Join(", ", Sorted(extra_fields))>>
  ELSE <<>>

required_fields == {"protocolVersion", "capabilities", "serverInfo"}

\* the initialize branch; order is the order in which the set of missing
\* names is iterated by ', '.join(missing)
InitializeErrors(result, order) ==
  LET missing == required_fields \ DOMAIN result.f IN
  (IF missing # {}
   THEN <<"Initialize result missing required fields: "
          \o Join(", ", SelectSeq(order, LAMBDA f : f \in missing))>>
   ELSE <<>>)
  \o UnexpectedErrors(result, required_fields,
                      "Initialize result has unexpected fields: ")

\* ListErrors that asks for the key only, not for an array
ListErrors_KeyOnly(result, method, field) ==
  (IF ~HasKey(result, field)
   THEN <<method \o " result must contain '" \o field \o "' array">>
   ELSE <<>>)
  \o UnexpectedErrors(result, {field}, method \o " result has unexpected fields: ")

\* the tools/list and resources/list branches
ListErrors(result, method, field) ==
  (IF ~IsInstanceList(DictGet(result, field))
   THEN <<method \o " result must contain '" \o field \o "' array">>
   ELSE <<>>)
  \o UnexpectedErrors(result, {field}, method \o " result has unexpected fields: ")

\* the tools/call and resources/read branches
ContentErrors(result, method, field, allowed_fields) ==
  (IF ~HasKey(result, field)
   THEN <<method \o " result must contain '" \o field \o "' field">>
   ELSE <<>>)
  \o UnexpectedErrors(result, allowed_fields, method \o " result has unexpected fields: ")

SchemaMethods ==
  {"initialize", "tools/list", "resources/list", "tools/call", "resources/read", "ping"}

\* the method-specific validation of result
SchemaErrors(result, method, order) ==
  IF method \notin SchemaMethods THEN Returns(<<>>)
  ELSE IF ~IsDict(result) THEN
    IF method \in {"tools/list", "resources/list"} THEN NoAttribute(result, "get")
    ELSE IF method \in {"tools/call", "resources/read"}
            /\ result.t \notin {"list", "str"} THEN NotIterable(result)
    ELSE NoAttribute(result, "keys")
  ELSE Returns(
    CASE method = "initialize" -> InitializeErrors(result, order)
      [] method = "tools/list" -> ListErrors(result, method, "tools")
      [] method = "resources/list" -> ListErrors(result, method, "resources")
      [] method = "tools/call" ->
           ContentErrors(result, method, "content", {"content", "isError"})
      [] method = "resources/read" ->
           ContentErrors(result, method, "contents", {"contents"})
      [] method = "ping" ->
           UnexpectedErrors(result, {}, "ping result has unexpected standard fields: "))

\* validate_mcp_response_structure without the early return on 'error'
validate_mcp_response_structure_unguarded(response, method, order) ==
  IF ~HasKey(response, "result") THEN Returns(<<>>)
  ELSE SchemaErrors(response.f["result"], method, order)

\* response is a dict: the callers reach this only after validate_json_rpc
\* returned, which raises for anything else
validate_mcp_response_structure(response, method, order) ==
  IF HasKey(response, "error") THEN Returns(<<>>)
  ELSE IF ~HasKey(response, "result") THEN Returns(<<>>)
  ELSE SchemaErrors(response.f["result"], method, order)

(***************************************************************************)
(* Classification of one test case.                                        *)
(***************************************************************************)
\* test_case.request.get("id") if "id" in test_case.request else None
ExpectedId(test_case) ==
  IF HasKey(test_case.request, "id") THEN test_case.request.f["id"] ELSE None

\* test_case.request.get("method", "")
Method(test_case) ==
  IF HasKey(test_case.request, "method") THEN test_case.request.f["method"].s ELSE ""

\* the fresh outcome record both classifiers start from
FreshCase(test_case) ==
  TestCase(test_case.name, test_case.request, test_case.expected_fields,
           test_case.is_notification, test_case.should_have_response)

\* RunValidators without the call of validate_expected_fields
RunValidators_SkipFields(test_case, response, order) ==
  LET a == validate_json_rpc(response, ExpectedId(test_case)) IN
  IF a.raised THEN a
  ELSE LET c == validate_mcp_response_structure(response, Method(test_case), order) IN
    IF c.raised THEN c
    ELSE Returns(a.errors \o c.errors)

\* errors.extend(...) of the three validators, in the order of the calls;
\* the first call that raises ends the sequence
RunValidators(test_case, response, order) ==
  LET a == validate_json_rpc(response, ExpectedId(test_case)) IN
  IF a.raised THEN a
  ELSE LET b == validate_expected_fields(response, test_case.expected_fields) IN
    IF b.raised THEN b
    ELSE LET c == validate_mcp_response_structure(response, Method(test_case), order) IN
      IF c.raised THEN c
      ELSE Returns(a.errors \o b.errors \o c.errors)

\* the branch for a test case marked as a notification without response
NotificationOutcome(test_case, response) ==
  IF response = None
  THEN [FreshCase(test_case) EXCEPT !.result = PASS, !.response = None]
  ELSE [FreshCase(test_case) EXCEPT !.result = FAIL,
          !.error_message = JStr("Unexpected response for notification"),
          !.response = response]

\* the branch for a missing response
NoResponseOutcome(test_case) ==
  [FreshCase(test_case) EXCEPT !.result = ERROR,
     !.error_message = JStr("No response from server")]

\* the outcome once the validators returned their violations
ValidatedOutcome(test_case, response, errors) ==
  IF errors # <<>>
  THEN [FreshCase(test_case) EXCEPT !.response = response, !.result = FAIL,
          !.error_message = JStr(Join("; ", errors))]
  ELSE [FreshCase(test_case) EXCEPT !.response = response, !.result = PASS]

IsNoResponseNotification(test_case) ==
  test_case.is_notification /\ ~test_case.should_have_response

Returned(case) == [raised |-> FALSE, exc |-> "", case |-> case]
Raised(exc) == [raised |-> TRUE, exc |-> exc, case |-> None]

\* validate_test_response: the outcome record, or the exception that
\* escapes it (nothing in it catches one)
validate_test_response(test_case, response, order) ==
  IF IsNoResponseNotification(test_case)
  THEN Returned(NotificationOutcome(test_case, response))
  ELSE IF response = None THEN Returned(NoResponseOutcome(test_case))
  ELSE LET e == RunValidators(test_case, response, order) IN
    IF e.raised THEN Raised(e.exc)
    ELSE Returned(ValidatedOutcome(test_case, response, e.errors))

\* time.time() - start_time: a measured duration, whatever its value
Elapsed == [t |-> "elapsed"]

\* run_test_case from the point where self.send_request has returned
\* response
run_test_case(test_case, response, order) ==
  IF IsNoResponseNotification(test_case)
  THEN [NotificationOutcome(test_case, response) EXCEPT !.execution_time = Elapsed]
  ELSE IF response = None
  THEN [NoResponseOutcome(test_case) EXCEPT !.execution_time = Elapsed]
  ELSE LET e == RunValidators(test_case, response, order) IN
    IF e.raised
    THEN [FreshCase(test_case) EXCEPT !.response = response, !.result = ERROR,
            !.error_message = JStr("Unexpected error: " \o e.exc),
            !.execution_time = Elapsed]
    ELSE [ValidatedOutcome(test_case, response, e.errors)
            EXCEPT !.execution_time = Elapsed]

(***************************************************************************)
(* The inputs the validators and the classifiers are applied to.           *)
(***************************************************************************)
\* a key that is not in the dict
Absent == [t |-> "absent"]

\* a response dict from the value of each top-level key (Absent: no key)
\* and a set of further top-level keys
MakeResponse(jsonrpc, id, result, error, extras) ==
  LET given == [k \in allowed_root_fields |->
                  CASE k = "jsonrpc" -> jsonrpc
                    [] k = "id" -> id
                    [] k = "result" -> result
                    [] k = "error" -> error]
      keys == {k \in allowed_root_fields : given[k] # Absent} \cup extras
  IN JObj([k \in keys |-> IF k \in allowed_root_fields THEN given[k] ELSE JInt(0)])

\* the test cases of create_test_cases, and three with the other settings
\* of the notification flags
TestCaseUniverse ==
  Range(create_test_cases)
  \cup {TestCase("Flags " \o n.tag, Request(n.has_id, JInt(9), "ping", FALSE, None),
                 <<"jsonrpc">>, n.notif, n.resp) :
          n \in {[tag |-> "notification expecting a response", has_id |-> FALSE,
                  notif |-> TRUE, resp |-> TRUE],
                 [tag |-> "request expecting none", has_id |-> TRUE,
                  notif |-> FALSE, resp |-> FALSE],
                 [tag |-> "notification with id", has_id |-> TRUE,
                  notif |-> TRUE, resp |-> FALSE]}}

\* the ids a response can carry for a request sent with expected_id: the
\* same value, the same number as a float or as a string, and others
IdVariants(expected_id) ==
  {Absent, None, JInt(0), JBool(TRUE), JFloat(1, TRUE), JStr("test-string-id"), expected_id}
  \cup (IF expected_id.t = "int"
        THEN {JFloat(expected_id.i, FALSE), JStr(IntStr(expected_id.i))}
        ELSE {})

ErrorCodes == {Absent, JInt(-32601), JBool(TRUE), JFloat(1, FALSE), JStr("-32601")}
ErrorMessages == {Absent, JStr("Method not found"), None}
ValidError == JObj("code" :> JInt(-32601) @@ "message" :> JStr("Method not found"))

\* the values of an 'error' key
ErrorVariants ==
  {Absent, None, JStr("boom")}
  \cup {JObj([k \in {n \in {"code", "message", "data"} :
                       \/ n = "code" /\ c # Absent
                       \/ n = "message" /\ m # Absent
                       \/ n = "data" /\ d} |->
              CASE k = "code" -> c [] k = "message" -> m [] k = "data" -> None]) :
          c \in ErrorCodes, m \in ErrorMessages, d \in BOOLEAN}

ResultFieldNames ==
  {"protocolVersion", "capabilities", "serverInfo", "tools", "resources",
   "content", "contents", "isError", "x-vendor", "xtra"}

\* a result dict with the given keys; arrays tells whether 'tools' and
\* 'resources' hold arrays
ResultWith(keys, arrays) ==
  JObj([k \in keys |->
    CASE k = "protocolVersion" -> JStr("2025-11-25")
      [] k \in {"capabilities", "serverInfo"} -> EmptyDict
      [] k = "tools" -> (IF arrays THEN JList(<<>>) ELSE EmptyDict)
      [] k = "resources" -> (IF arrays THEN JList(<<>>) ELSE None)
      [] k \in {"content", "contents"} -> JList(<<>>)
      [] k = "isError" -> JBool(FALSE)
      [] OTHER -> JInt(1)])

\* a result the method's schema accepts
GoodResult(method) ==
  ResultWith(CASE method = "initialize" -> required_fields
               [] method = "tools/list" -> {"tools"}
               [] method = "resources/list" -> {"resources"}
               [] method = "tools/call" -> {"content"}
               [] method = "resources/read" -> {"contents"}
               [] OTHER -> {}, TRUE)

NonDictValues == {None, JList(<<>>), JStr("ok"), JInt(1)}

ResultVariants ==
  {ResultWith(K, TRUE) : K \in {K \in SUBSET ResultFieldNames : Cardinality(K) <= MaxResultKeys}}
  \cup {ResultWith(K, FALSE) :
          K \in {K \in SUBSET ResultFieldNames :
                   Cardinality(K) <= MaxResultKeys /\ K \cap {"tools", "resources"} # {}}}
  \cup NonDictValues

\* the responses a test case is classified against: none, values that are
\* no dict, and dicts that vary the id, the error and the result
ResponseUniverse(test_case) ==
  LET id == ExpectedId(test_case)
      good == GoodResult(Method(test_case))
  IN NonDictValues
     \cup {MakeResponse(j, i, r, e, {}) :
             j \in {Absent, JStr("2.0"), JStr("1.0")}, i \in IdVariants(id),
             r \in {Absent, good}, e \in {Absent, ValidError}}
     \cup {MakeResponse(JStr("2.0"), i, r, e, x) :
             i \in {Absent, id}, r \in {Absent, good}, e \in ErrorVariants,
             x \in {{}, {"params"}, {"method", "params"}}}
     \cup {MakeResponse(JStr("2.0"), IF HasKey(test_case.request, "id") THEN id ELSE Absent,
                        r, e, {}) :
             r \in ResultVariants, e \in {Absent, ValidError}}

(***************************************************************************)
(* The stdio session: lines on the server's stdout and the aggregation of  *)
(* run_mode_tests.                                                         *)
(***************************************************************************)
\* a line of text is known by what it holds: JSON text that decodes to a
\* value, text that is no JSON, or white space only
JsonLine(value) == [kind |-> "json", value |-> value]
GarbageLine == [kind |-> "garbage"]
BlankLine == [kind |-> "blank"]
\* bytes that are no valid UTF-8: process.stdout (text=True, strict
\* errors) raises UnicodeDecodeError when it decodes them
UndecodableLine == [kind |-> "undecodable"]
\* what the server has put out for request reply_to: the text of one line,
\* with its newline (nl) or, so far, without
Line(reply_to, text, nl) == [reply_to |-> reply_to, text |-> text, nl |-> nl]
\* what read_with_timeout returns without a line: None on a timeout, "" at
\* end of file; both are falsy
NoLine == [kind |-> "none"]

\* the slot appended for what read_with_timeout returned: the decoded
\* value, or None for no line, a blank line or a JSONDecodeError
ResponseSlot(output_line) ==
  IF output_line = NoLine THEN None
  ELSE IF output_line.text.kind = "json" THEN output_line.text.value
  ELSE None

\* [None] * n
RECURSIVE Nones(_)
Nones(n) == IF n = 0 THEN <<>> ELSE <<None>> \o Nones(n - 1)

\* the texts the server can put on one line in reply to a test case's
\* request: a compliant response, one with another id, a JSON array, text
\* that is no JSON, and bytes that are no text
ReplyTexts(tc) ==
  LET id == IF HasKey(tc.request, "id") THEN ExpectedId(tc) ELSE Absent
      good == GoodResult(Method(tc))
  IN {JsonLine(MakeResponse(JStr("2.0"), id, good, Absent, {})),
      JsonLine(MakeResponse(JStr("2.0"), JInt(0), good, Absent, {})),
      JsonLine(JList(<<>>)),
      GarbageLine,
      UndecodableLine}

\* the texts the server may put out in two parts, the newline last
PartTexts(tc) ==
  LET id == IF HasKey(tc.request, "id") THEN ExpectedId(tc) ELSE Absent
  IN {JsonLine(MakeResponse(JStr("2.0"), id, GoodResult(Method(tc)), Absent, {}))}

\* SuccessRate with 100 for an empty list
SuccessRate_EmptyIsFull(passed, total) ==
  IF total # 0 THEN [num |-> passed * 100, den |-> total] ELSE [num |-> 100, den |-> 1]

\* passed / len(test_cases) * 100 as a fraction, 0 for an empty list
SuccessRate(passed, total) ==
  IF total # 0 THEN [num |-> passed * 100, den |-> total] ELSE [num |-> 0, den |-> 1]

ModeResults(mode, total, passed, failed, errors_, cases, success_rate) ==
  [mode |-> mode, total |-> total, passed |-> passed, failed |-> failed,
   errors |-> errors_, test_cases |-> cases, success_rate |-> success_rate]

Min(a, b) == IF a < b THEN a ELSE b
CountResult(results, result) ==
  Cardinality({n \in 1..Len(results) : results[n].result = result})

\* the loop of run_mode_tests pairing case k with the slot counted from the
\* end of the response list
RECURSIVE ClassifyPairs_Reversed(_, _, _, _)
ClassifyPairs_Reversed(cases, resps, k, order) ==
  IF k > Min(Len(cases), Len(resps)) THEN [raised |-> FALSE, exc |-> "", results |-> <<>>]
  ELSE LET r == validate_test_response(cases[k], resps[Len(resps) + 1 - k], order) IN
    IF r.raised THEN [raised |-> TRUE, exc |-> r.exc, results |-> <<>>]
    ELSE LET rest == ClassifyPairs_Reversed(cases, resps, k + 1, order) IN
      [rest EXCEPT !.results = <<r.case>> \o rest.results]

\* the loop over zip(test_cases, responses) of run_mode_tests from pair k
\* on: the outcome records in order, up to the first validate_test_response
\* that raises
RECURSIVE ClassifyPairs(_, _, _, _)
ClassifyPairs(cases, resps, k, order) ==
  IF k > Min(Len(cases), Len(resps)) THEN [raised |-> FALSE, exc |-> "", results |-> <<>>]
  ELSE LET r == validate_test_response(cases[k], resps[k], order) IN
    IF r.raised THEN [raised |-> TRUE, exc |-> r.exc, results |-> <<>>]
    ELSE LET rest == ClassifyPairs(cases, resps, k + 1, order) IN
      [rest EXCEPT !.results = <<r.case>> \o rest.results]

(***************************************************************************)
(* HTTP transport: what the server answers to one POST, and what            *)
(* send_http_request makes of it.                                           *)
(***************************************************************************)
\* requests.post raises a RequestException: no connection, or the timeout
RequestFailed == [t |-> "request failed"]
\* the server's answer: a status and a body
HttpResponse(status_code, body) == [t |-> "http", status_code |-> status_code, body |-> body]
\* no POST was made
NoHttp == [t |-> "no http"]
\* a body that is the JSON text of a value, one that is text but no JSON,
\* and an empty one
JsonBody(value) == [kind |-> "json", value |-> value]
TextBody == [kind |-> "text"]
EmptyBody == [kind |-> "empty"]

\* The exception of response.json() for a body that is no JSON derives from
\* RequestException in requests 2.27 and later; before, it is the
\* ValueError of the json module.  The source pins no version.
RequestsVersions == {"before 2.27", "2.27 or later"}

\* response.json()
ResponseJson(body, version) ==
  IF body.kind = "json" THEN [raised |-> FALSE, exc |-> "", value |-> body.value]
  ELSE [raised |-> TRUE,
        exc |-> IF version = "2.27 or later" THEN "RequestException" ELSE "ValueError",
        value |-> None]

send_http_request(http, version) ==
  IF http = RequestFailed THEN [raised |-> FALSE, exc |-> "", value |-> None]
  ELSE IF http.status_code = 204 THEN [raised |-> FALSE, exc |-> "", value |-> None]
  ELSE IF http.status_code = 200
  THEN LET decoded == ResponseJson(http.body, version) IN
         IF decoded.raised /\ decoded.exc = "RequestException"
         THEN [raised |-> FALSE, exc |-> "", value |-> None]
         ELSE decoded
  ELSE [raised |-> FALSE, exc |-> "", value |-> None]

\* run_test_case in HTTP mode, sent being what send_request did: an
\* exception of it is taken by the except clause of run_test_case
run_test_case_http(tc, sent, order) ==
  IF sent.raised
  THEN [FreshCase(tc) EXCEPT !.result = ERROR,
                             !.error_message = JStr("Unexpected error: " \o sent.exc),
                             !.execution_time = Elapsed]
  ELSE run_test_case(tc, sent.value, order)

\* the statuses and the bodies the server is let to answer with
StatusCodes == {200, 204, 404, 500}
HttpBodies(tc) ==
  LET id == IF HasKey(tc.request, "id") THEN ExpectedId(tc) ELSE Absent
  IN {JsonBody(MakeResponse(JStr("2.0"), id, GoodResult(Method(tc)), Absent, {})),
      JsonBody(MakeResponse(JStr("2.0"), id, Absent, ValidError, {})),
      JsonBody(None),
      JsonBody(JList(<<>>)),
      TextBody,
      EmptyBody}
HttpUniverse(tc) ==
  {RequestFailed} \cup {HttpResponse(c, b) : c \in StatusCodes, b \in HttpBodies(tc)}

(***************************************************************************)
(* State.                                                                  *)
(***************************************************************************)
VARIABLES
  test_case,     \* the test-case specification a function is applied to
  response,      \* the response it is applied to
  called,        \* the function that was applied, "" before the call
  errors,        \* what a validator returned (or that it raised)
  result_case    \* what a classifier returned (or that it raised)

VARIABLES
  pc,            \* where run_mode_tests(STDIO) stands
  test_cases,    \* the list run_mode_tests drives
  process,       \* the server process: "none", "running" or "exited"
  popen_count,   \* how many server processes were started
  stdin,         \* the requests written to the server's stdin, in order
  os_pipe,       \* the lines in the stdout pipe the harness has not read
  buffer,        \* the lines process.stdout has read ahead and holds
  output_line,   \* what read_with_timeout returned in this iteration
  timed_out,     \* the requests whose read ended at its deadline with no line
  responses,     \* the list send_stdio_session_requests builds and returns
  current,       \* the index of the request of the current loop iteration
  answered,      \* the requests the server has put a reply line out for
  session_failed,\* the session ended in its except clause
  mode_results   \* what run_mode_tests returned, None before

VARIABLES
  http_response, \* what the server answered to the POST, NoHttp without one
  http_returned  \* what send_http_request did with it

VARIABLES
  mode,            \* the --mode of the run: "stdio", "http" or "both"
  HAS_REQUESTS,    \* the requests library could be imported
  at,              \* where main stands
  stop_then,       \* what follows the stop_http_server under way
  stdio_process,   \* the server process of the stdio session: "none", "running", "exited"
  stdio_failed,    \* send_stdio_session_requests ended in its except clause
  server_process,  \* self.server_process: None or the Popen object
  http_process,    \* the server process of HTTP mode: "none", "running", "exited"
  drain_started,   \* the drain threads of _start_http_drain run
  probes,          \* the health probes start_http_server has made
  stderr_pipe,     \* the text in the stderr pipe of the HTTP server process
  stderr_written,  \* the text the HTTP server process has written to stderr
  reported,        \* what the failure report of start_http_server printed
  start_returned,  \* what start_http_server returned, "" before
  killed,          \* stop_http_server has called kill()
  results,         \* the outcome records of the HTTP batch so far
  stdio_results,   \* what run_mode_tests(STDIO) returned, None before
  http_results,    \* what run_mode_tests(HTTP) returned, None before
  interrupted,     \* SIGINT was delivered
  exit_status      \* the SystemExit main ended with, None before

VARIABLES
  simple_at,     \* where the thread that calls SimpleMCPTester stands
  simple_then,   \* what follows the start_process or stop_process under way
  tester_process,\* self.process: None or the Popen object
  stderr_thread, \* self._stderr_thread: None or the Thread object
  stderr_buffer, \* self._stderr_buffer
  servers,       \* the server processes started so far, each with its stderr pipe
  drains,        \* the drain threads started so far
  budget,        \* the starts the caller and the stderr lines the servers have left
  http_server,   \* the process of test_http_mode: "none", "running" or "exited"
  attempt,       \* the rounds of the readiness loop of test_http_mode so far
  run_ended      \* how the last call of run_tests ended: "", "returned" or "raised"

VARIABLES
  reader_at,     \* where the session loop of the reader-thread strategy stands
  request_no,    \* the index of the request of the current loop iteration
  server_stdout, \* the lines in the stdout pipe no readline has returned
  replied,       \* the requests the server has put a reply line out for
  server_state,  \* the server process of the session: "running" or "exited"
  readers,       \* per read attempt, where its reader thread stands
  result_queue,  \* per read attempt, the content of its result_queue
  returned_line  \* per read attempt, what read_with_timeout returned

vvars == <<test_case, response, called, errors, result_case>>
hvars == <<http_response, http_returned>>
rvars == <<mode, HAS_REQUESTS, at, stop_then, stdio_process, stdio_failed, server_process,
           http_process, drain_started, probes, stderr_pipe, stderr_written, reported,
           start_returned, killed, results, stdio_results, http_results, interrupted,
           exit_status>>
tvars == <<simple_at, simple_then, tester_process, stderr_thread, stderr_buffer, servers,
           drains, budget, http_server, attempt, run_ended>>
wvars == <<reader_at, request_no, server_stdout, replied, server_state, readers,
           result_queue, returned_line>>
svars == <<pc, test_cases, process, popen_count, stdin, os_pipe, buffer, output_line,
           timed_out, responses, current, answered, session_failed, mode_results>>
vars == <<vvars, svars, hvars, rvars, tvars, wvars>>
\* the variables a step of the stdio session, and a step of a run, leaves alone
notstdio == <<vvars, hvars, rvars, tvars, wvars>>
notrun == <<vvars, svars, hvars, tvars, wvars>>

\* the session variables while no session is modelled
SessionIdle ==
  /\ pc = "idle"
  /\ test_cases = <<>>
  /\ process = "none"
  /\ popen_count = 0
  /\ stdin = <<>>
  /\ os_pipe = <<>>
  /\ buffer = <<>>
  /\ output_line = NoLine
  /\ timed_out = {}
  /\ responses = <<>>
  /\ current = 0
  /\ answered = {}
  /\ session_failed = FALSE
  /\ mode_results = None

\* the HTTP variables while no POST is modelled
HttpIdle ==
  /\ http_response = NoHttp
  /\ http_returned = NoHttp

\* the variables of a whole run while no run of main is modelled
RunIdle ==
  /\ mode = ""
  /\ HAS_REQUESTS = TRUE
  /\ at = "idle"
  /\ stop_then = ""
  /\ stdio_process = "none"
  /\ stdio_failed = FALSE
  /\ server_process = None
  /\ http_process = "none"
  /\ drain_started = FALSE
  /\ probes = 0
  /\ stderr_pipe = ""
  /\ stderr_written = ""
  /\ reported = ""
  /\ start_returned = ""
  /\ killed = FALSE
  /\ results = <<>>
  /\ stdio_results = None
  /\ http_results = None
  /\ interrupted = FALSE
  /\ exit_status = None

\* the variables of SimpleMCPTester while no SimpleMCPTester is modelled
SimpleIdle ==
  /\ simple_at = "idle"
  /\ simple_then = ""
  /\ tester_process = None
  /\ stderr_thread = None
  /\ stderr_buffer = <<>>
  /\ servers = <<>>
  /\ drains = <<>>
  /\ budget = [starts |-> 0, lines |-> 0]
  /\ http_server = "none"
  /\ attempt = 0
  /\ run_ended = ""

\* the variables of the reader-thread strategy while it is not modelled
ReaderIdle ==
  /\ reader_at = "idle"
  /\ request_no = 0
  /\ server_stdout = <<>>
  /\ replied = {}
  /\ server_state = "none"
  /\ readers = <<>>
  /\ result_queue = <<>>
  /\ returned_line = <<>>

\* the validator variables while no validator call is modelled
ValidateIdle ==
  /\ test_case = None
  /\ response = None
  /\ called = ""
  /\ errors = Returns(<<>>)
  /\ result_case = Returned(None)

(***************************************************************************)
(* SpecValidate: each validator and each classifier applied once to a      *)
(* drawn test case and response.                                           *)
(***************************************************************************)
InitValidate ==
  /\ test_case \in TestCaseUniverse
  /\ response \in ResponseUniverse(test_case)
  /\ called = ""
  /\ errors = Returns(<<>>)
  /\ result_case = Returned(None)
  /\ SessionIdle
  /\ HttpIdle
  /\ RunIdle
  /\ SimpleIdle
  /\ ReaderIdle

CallValidateJsonRpc ==
  /\ called = ""
  /\ called' = "validate_json_rpc"
  /\ errors' = validate_json_rpc(response, ExpectedId(test_case))
  /\ UNCHANGED <<test_case, response, result_case, svars, hvars, rvars, tvars, wvars>>

CallValidateExpectedFields ==
  /\ called = ""
  /\ called' = "validate_expected_fields"
  /\ errors' = validate_expected_fields(response, test_case.expected_fields)
  /\ UNCHANGED <<test_case, response, result_case, svars, hvars, rvars, tvars, wvars>>

CallValidateMcpResponseStructure ==
  /\ called = ""
  /\ IsDict(response)
  /\ called' = "validate_mcp_response_structure"
  /\ errors' \in {validate_mcp_response_structure(response, Method(test_case), order) :
                    order \in Orders(required_fields)}
  /\ UNCHANGED <<test_case, response, result_case, svars, hvars, rvars, tvars, wvars>>

\* validate_test_response writing the outcome into the specification
CallValidateTestResponse_InPlace ==
  /\ called = ""
  /\ called' = "validate_test_response"
  /\ result_case' \in {validate_test_response(test_case, response, order) :
                         order \in Orders(required_fields)}
  /\ test_case' = IF result_case'.raised THEN test_case ELSE result_case'.case
  /\ UNCHANGED <<response, errors, svars, hvars, rvars, tvars, wvars>>

CallValidateTestResponse ==
  /\ called = ""
  /\ called' = "validate_test_response"
  /\ result_case' \in {validate_test_response(test_case, response, order) :
                         order \in Orders(required_fields)}
  /\ UNCHANGED <<test_case, response, errors, svars, hvars, rvars, tvars, wvars>>

CallRunTestCase ==
  /\ called = ""
  /\ called' = "run_test_case"
  /\ result_case' \in {Returned(run_test_case(test_case, response, order)) :
                         order \in Orders(required_fields)}
  /\ UNCHANGED <<test_case, response, errors, svars, hvars, rvars, tvars, wvars>>

NextValidate ==
  \/ CallValidateJsonRpc
  \/ CallValidateExpectedFields
  \/ CallValidateMcpResponseStructure
  \/ CallValidateTestResponse
  \/ CallRunTestCase

SpecValidate == InitValidate /\ [][NextValidate]_vars

(***************************************************************************)
(* Properties of the validators and of the classification, checked under   *)
(* SpecValidate.                                                           *)
(***************************************************************************)
Reported(message, result) == \E n \in 1..Len(result.errors) : result.errors[n] = message
ReportedWithPrefix(prefix, result) ==
  \E n \in 1..Len(result.errors) : StartsWith(result.errors[n], prefix)
Classified == called \in {"validate_test_response", "run_test_case"}
ClassifiedAs(result) == Classified /\ ~result_case.raised /\ result_case.case.result = result
HasVendorPrefix(name) == Len(name) >= 2 /\ SubSeq(name, 1, 2) = "x-"

\* C1: for a test case that is not a no-response notification, a missing
\* response is classified ERROR with 'No response from server'; otherwise
\* the outcome is PASS exactly when validate_json_rpc,
\* validate_expected_fields and validate_mcp_response_structure all return
\* and return no violation, and it is FAIL with the '; '-joined messages of
\* the three, in that order, when they return at least one.
C1_ClassificationRule ==
  (Classified /\ ~(test_case.is_notification /\ ~test_case.should_have_response)) =>
    IF response = None
    THEN /\ ClassifiedAs(ERROR)
         /\ result_case.case.error_message = JStr("No response from server")
    ELSE LET a == validate_json_rpc(response, ExpectedId(test_case))
             b == validate_expected_fields(response, test_case.expected_fields)
         IN IF a.raised \/ b.raised THEN ~ClassifiedAs(PASS) /\ ~ClassifiedAs(FAIL)
            ELSE \E order \in Orders(required_fields) :
              LET c == validate_mcp_response_structure(response, Method(test_case), order)
                  violations == a.errors \o b.errors \o c.errors
              IN IF c.raised THEN ~ClassifiedAs(PASS) /\ ~ClassifiedAs(FAIL)
                 ELSE IF violations = <<>> THEN ClassifiedAs(PASS)
                 ELSE /\ ClassifiedAs(FAIL)
                      /\ result_case.case.error_message = JStr(Join("; ", violations))

\* a request classified FAIL with the messages of two validators joined
C1_Witness ==
  /\ called = "run_test_case"
  /\ test_case.name = "List Tools"
  /\ ClassifiedAs(FAIL)
  /\ result_case.case.error_message =
       JStr("Response must have either 'result' or 'error'; "
            \o "Missing expected field: result; Missing expected field: result.tools")

\* C3: a response id that is not strictly equal to the request id (equal
\* JSON type and equal value) makes validate_json_rpc report an ID
\* violation, and such a response is never classified PASS.
C3_StrictIdEquality ==
  (IsDict(response) /\ HasKey(response, "id")
     /\ response.f["id"] # ExpectedId(test_case)) =>
    /\ called = "validate_json_rpc" => ReportedWithPrefix("ID mismatch: ", errors)
    /\ ~ClassifiedAs(PASS)

\* C4: for a test case of create_test_cases whose request carries id: null,
\* a classification as PASS implies that the response has an 'id' key whose
\* value is null; a response without the key, or with id 0, is not PASS.
C4_NullIdEchoed ==
  (test_case \in Range(create_test_cases) /\ HasKey(test_case.request, "id")
     /\ test_case.request.f["id"] = None /\ ClassifiedAs(PASS)) =>
    /\ IsDict(response)
    /\ "id" \in DOMAIN response.f
    /\ response.f["id"] = None

\* a null-id request whose response omits the id key, classified FAIL
C4_Witness ==
  /\ test_case.name = "ID Test - Null ID"
  /\ called = "validate_test_response"
  /\ IsDict(response) /\ "id" \notin DOMAIN response.f
  /\ DOMAIN response.f = {"jsonrpc", "result"}
  /\ response.f["jsonrpc"] = JStr("2.0")
  /\ ClassifiedAs(FAIL)
  /\ result_case.case.error_message = JStr("Missing expected field: id")

\* C5: validate_json_rpc reports 'cannot have both' exactly when the
\* response has both 'result' and 'error', reports 'must have either'
\* exactly when it has neither, and reports none of the two exactly when
\* one of the two keys is present, whatever the request.
C5_ExactlyOneOfResultError ==
  (called = "validate_json_rpc" /\ IsDict(response)) =>
    LET has_result == "result" \in DOMAIN response.f
        has_error == "error" \in DOMAIN response.f
        both == Reported("Response cannot have both 'result' and 'error'", errors)
        neither == Reported("Response must have either 'result' or 'error'", errors)
    IN /\ ~errors.raised
       /\ both <=> (has_result /\ has_error)
       /\ neither <=> (~has_result /\ ~has_error)
       /\ (~both /\ ~neither) <=> (has_result # has_error)

\* a response with both keys, flagged, for a request of a method without schema
C5_Witness ==
  /\ called = "validate_json_rpc"
  /\ Method(test_case) = "invalid/method"
  /\ IsDict(response) /\ {"result", "error"} \subseteq DOMAIN response.f
  /\ errors.errors = <<"Response cannot have both 'result' and 'error'">>

\* C6: a response with an 'error' key gets a violation from
\* validate_json_rpc unless the error is an object whose 'code' is an
\* integer (no boolean, string or float) and whose 'message' is a string;
\* and any top-level key besides jsonrpc, id, result, error gets one.
C6_ErrorObjectAndRootKeys ==
  (called = "validate_json_rpc" /\ IsDict(response)) =>
    /\ ("error" \in DOMAIN response.f
          /\ ~LET error == response.f["error"] IN
               /\ error.t = "obj"
               /\ {"code", "message"} \subseteq DOMAIN error.f
               /\ error.f["code"].t = "int"
               /\ error.f["message"].t = "str")
         => errors.errors # <<>>
    /\ (DOMAIN response.f \ {"jsonrpc", "id", "result", "error"} # {})
         => ReportedWithPrefix("Unexpected extra fields in response: ", errors)

\* the response with the vendor-extension keys of its result removed
WithoutVendorKeys(resp) ==
  [resp EXCEPT !.f["result"] =
     JObj([k \in {n \in DOMAIN resp.f["result"].f : ~HasVendorPrefix(n)} |->
             resp.f["result"].f[k]])]

\* validate_mcp_response_structure was applied to a response without
\* 'error' whose result is an object
SchemaChecked ==
  /\ called = "validate_mcp_response_structure"
  /\ "error" \notin DOMAIN response.f
  /\ "result" \in DOMAIN response.f
  /\ response.f["result"].t = "obj"

\* C7: for 'initialize' and a response without 'error' whose result is an
\* object, the missing-field violation names exactly the members of
\* {protocolVersion, capabilities, serverInfo} that result lacks, the
\* unexpected-field violation names exactly the keys of result that are
\* neither in that set nor prefixed 'x-', and nothing else is reported:
\* nothing at all when the keys without 'x-' prefix are exactly that set.
C7_InitializeSchema ==
  (SchemaChecked /\ Method(test_case) = "initialize") =>
    LET keys == DOMAIN response.f["result"].f
        required == {"protocolVersion", "capabilities", "serverInfo"}
        missing == required \ keys
        unexpected == {k \in keys \ required : ~HasVendorPrefix(k)}
        missing_text == "Initialize result missing required fields: "
        unexpected_text == "Initialize result has unexpected fields: "
    IN /\ ~errors.raised
       /\ Len(errors.errors) = (IF missing = {} THEN 0 ELSE 1)
                                + (IF unexpected = {} THEN 0 ELSE 1)
       /\ missing # {} =>
            \E q \in Orders(missing) : Reported(missing_text \o Join(", ", q), errors)
       /\ unexpected # {} =>
            Reported(unexpected_text \o Join(", ", Sorted(unexpected)), errors)
       /\ {k \in keys : ~HasVendorPrefix(k)} = required => errors.errors = <<>>

\* an initialize result that lacks serverInfo only: exactly that name is listed
C7_Witness ==
  /\ SchemaChecked /\ Method(test_case) = "initialize"
  /\ DOMAIN response.f["result"].f = {"protocolVersion", "capabilities", "x-vendor"}
  /\ errors.errors = <<"Initialize result missing required fields: serverInfo">>

\* C8: for tools/list, resources/list, tools/call, resources/read and ping
\* and a response without 'error' whose result is an object, there is no
\* schema violation if and only if the required field is there (tools and
\* resources as arrays, content, contents, none for ping) and every other
\* key is isError (tools/call only) or has the 'x-' prefix; and for all six
\* methods the keys with the 'x-' prefix change nothing of what is reported.
C8_MethodSchemas ==
  SchemaChecked =>
    LET method == Method(test_case)
        result == response.f["result"]
        keys == DOMAIN result.f
        required == CASE method = "tools/list" -> {"tools"}
                      [] method = "resources/list" -> {"resources"}
                      [] method = "tools/call" -> {"content"}
                      [] method = "resources/read" -> {"contents"}
                      [] OTHER -> {}
        optional == IF method = "tools/call" THEN {"isError"} ELSE {}
        arrays == \A k \in required \cap {"tools", "resources"} :
                    k \in keys /\ result.f[k].t = "list"
        compliant == /\ required \subseteq keys
                     /\ arrays
                     /\ \A k \in keys \ required : k \in optional \/ HasVendorPrefix(k)
    IN /\ method \in {"tools/list", "resources/list", "tools/call", "resources/read", "ping"}
            => (~errors.raised /\ (errors.errors = <<>> <=> compliant))
       /\ method \in SchemaMethods
            => \E order \in Orders(required_fields) :
                 errors = validate_mcp_response_structure(WithoutVendorKeys(response),
                                                          method, order)

\* a tools/call result with content, isError and a vendor extension: compliant
C8_Witness ==
  /\ SchemaChecked /\ Method(test_case) = "tools/call"
  /\ DOMAIN response.f["result"].f = {"content", "isError", "x-vendor"}
  /\ errors = Returns(<<>>)

\* C9: validate_mcp_response_structure returns no violation when the
\* response carries an 'error' key, whatever the method and the result, and
\* none for a method other than the six with a schema.
C9_ErrorAndOtherMethods ==
  (called = "validate_mcp_response_structure"
     /\ \/ "error" \in DOMAIN response.f
        \/ Method(test_case) \notin {"initialize", "tools/list", "resources/list",
                                     "tools/call", "resources/read", "ping"}) =>
    errors = Returns(<<>>)

\* a tools/list response with an error and a result that is no object
C9_Witness ==
  /\ called = "validate_mcp_response_structure"
  /\ Method(test_case) = "tools/list"
  /\ {"error", "result"} \subseteq DOMAIN response.f
  /\ response.f["result"] = JList(<<>>)
  /\ errors = Returns(<<>>)

(***************************************************************************)
(* SpecStdio: run_mode_tests(STDIO).  send_stdio_session_requests starts   *)
(* the server, writes each request and reads one line for each request     *)
(* that has an id (select on the pipe, then readline), closes the session  *)
(* and returns the response list, which run_mode_tests classifies.  The    *)
(* server is a black box: it may put a reply line out for any request it   *)
(* was sent, once, at any time, and it may exit.                           *)
(***************************************************************************)
InitStdio ==
  /\ ValidateIdle
  /\ HttpIdle
  /\ pc = "start"
  /\ test_cases = SubSeq(create_test_cases, 1, MaxRequests)
  /\ process = "none"
  /\ popen_count = 0
  /\ stdin = <<>>
  /\ os_pipe = <<>>
  /\ buffer = <<>>
  /\ output_line = NoLine
  /\ timed_out = {}
  /\ responses = <<>>
  /\ current = 0
  /\ answered = {}
  /\ session_failed = FALSE
  /\ mode_results = None
  /\ RunIdle
  /\ SimpleIdle
  /\ ReaderIdle

\* the position after the loop iteration of request k
AfterRequest(k) == IF k < Len(test_cases) THEN "write" ELSE "close"

\* send_stdio_session_requests returns: process, the only reference to the
\* Popen object, goes, and with it its pipes and what they hold
PipesDropped ==
  /\ os_pipe' = <<>>
  /\ buffer' = <<>>

\* the except clause of send_stdio_session_requests: [None] * len(requests)
SessionFails ==
  /\ responses' = Nones(Len(test_cases))
  /\ session_failed' = TRUE
  /\ pc' = "returned"
  /\ PipesDropped

\* all the server has put out and no readline has returned, in order
Stream == buffer \o os_pipe
\* the server has put out the start of a line and not yet its newline
Unfinished == Stream # <<>> /\ ~Stream[Len(Stream)].nl
\* select reports process.stdout readable: bytes in the pipe, or end of file
SelectReady == os_pipe # <<>> \/ process = "exited"
\* readline finds a whole line in what process.stdout holds and reads nothing
FromBuffer == buffer # <<>> /\ Head(buffer).nl
\* the lines readline has at hand: those held, and all the pipe holds when
\* it has to read
Held == IF FromBuffer THEN buffer ELSE Stream
\* readline has to read and decode bytes that are no text
RaisesOnRead ==
  ~FromBuffer /\ \E n \in 1..Len(os_pipe) : os_pipe[n].text = UndecodableLine

\* subprocess.Popen starts the server and the stderr drain
Popen ==
  /\ pc = "start"
  /\ process' = "running"
  /\ popen_count' = popen_count + 1
  /\ current' = 1
  /\ pc' = IF Len(test_cases) = 0 THEN "close" ELSE "write"
  /\ UNCHANGED <<notstdio, test_cases, stdin, os_pipe, buffer, output_line, timed_out,
                 responses, answered, session_failed, mode_results>>

\* subprocess.Popen raises (the executable cannot be started)
PopenFails ==
  /\ pc = "start"
  /\ SessionFails
  /\ UNCHANGED <<notstdio, test_cases, process, popen_count, stdin,
                 output_line, timed_out, current, answered, mode_results>>

\* the write of the current request followed by a read whether or not the
\* request has an id
WriteRequest_AlwaysReads ==
  /\ pc = "write"
  /\ process = "running"
  /\ stdin' = Append(stdin, test_cases[current].request)
  /\ pc' = "read"
  /\ UNCHANGED <<notstdio, test_cases, process, popen_count, os_pipe, buffer, output_line,
                 timed_out, responses, current, answered, session_failed, mode_results>>

\* process.stdin.write and flush of the current request; a request without
\* id gets its None slot at once and the loop goes on
WriteRequest ==
  /\ pc = "write"
  /\ process = "running"
  /\ LET request == test_cases[current].request IN
       /\ stdin' = Append(stdin, request)
       /\ IF ~HasKey(request, "id")
          THEN /\ responses' = Append(responses, None)
               /\ current' = current + 1
               /\ pc' = AfterRequest(current)
          ELSE /\ pc' = "read"
               /\ UNCHANGED <<responses, current>>
  /\ UNCHANGED <<notstdio, test_cases, process, popen_count, os_pipe, buffer, output_line,
                 timed_out, answered, session_failed, mode_results>>

\* the write or the flush raises BrokenPipeError: the server has exited
WriteBrokenPipe ==
  /\ pc = "write"
  /\ process = "exited"
  /\ SessionFails
  /\ UNCHANGED <<notstdio, test_cases, process, popen_count, stdin,
                 output_line, timed_out, current, answered, mode_results>>

\* read_with_timeout, select strategy: select reports the pipe readable
\* and readline returns: the first line it has at hand, the text without
\* newline that is left at end of file, or '' at end of file.  It also is
\* how a readline that waited for the rest of a line returns.
ReadLine ==
  /\ pc \in {"read", "readline", "overdue"}
  /\ SelectReady
  /\ ~RaisesOnRead
  /\ IF Held = <<>> THEN TRUE ELSE Head(Held).nl \/ process = "exited"
  /\ output_line' = IF Held = <<>> THEN NoLine ELSE Head(Held)
  /\ buffer' = IF Held = <<>> THEN <<>> ELSE Tail(Held)
  /\ os_pipe' = IF FromBuffer THEN os_pipe ELSE <<>>
  /\ pc' = "decode"
  /\ UNCHANGED <<notstdio, test_cases, process, popen_count, stdin, timed_out, responses,
                 current, answered, session_failed, mode_results>>

\* read_with_timeout, select strategy: select reports the pipe readable,
\* and readline, with the start of a line only, waits for the rest of it
ReadBlocks ==
  /\ pc = "read"
  /\ SelectReady
  /\ ~RaisesOnRead
  /\ Held # <<>> /\ ~Head(Held).nl /\ process = "running"
  /\ buffer' = Held
  /\ os_pipe' = <<>>
  /\ pc' = "readline"
  /\ UNCHANGED <<notstdio, test_cases, process, popen_count, stdin, output_line, timed_out,
                 responses, current, answered, session_failed, mode_results>>

\* the read deadline passes while readline waits for the rest of a line:
\* nothing ends the wait
DeadlineExpires ==
  /\ pc = "readline"
  /\ pc' = "overdue"
  /\ UNCHANGED <<notstdio, test_cases, process, popen_count, stdin, os_pipe, buffer,
                 output_line, timed_out, responses, current, answered, session_failed,
                 mode_results>>

\* readline raises UnicodeDecodeError, which is no JSONDecodeError: the
\* except clause of the session takes it
ReadRaises ==
  /\ pc \in {"read", "readline", "overdue"}
  /\ SelectReady
  /\ RaisesOnRead
  /\ SessionFails
  /\ UNCHANGED <<notstdio, test_cases, process, popen_count, stdin,
                 output_line, timed_out, current, answered, mode_results>>

\* read_with_timeout, select strategy: nothing became readable within the
\* timeout and None is returned
ReadTimeout ==
  /\ pc = "read"
  /\ ~SelectReady
  /\ output_line' = NoLine
  /\ timed_out' = timed_out \cup {current}
  /\ pc' = "decode"
  /\ UNCHANGED <<notstdio, test_cases, process, popen_count, stdin, os_pipe, buffer,
                 responses, current, answered, session_failed, mode_results>>

\* the slot of the current request: the decoded line, or None for no line,
\* a blank line or a JSONDecodeError; then the next iteration
DecodeLine ==
  /\ pc = "decode"
  /\ responses' = Append(responses, ResponseSlot(output_line))
  /\ output_line' = NoLine
  /\ current' = current + 1
  /\ pc' = AfterRequest(current)
  /\ UNCHANGED <<notstdio, test_cases, process, popen_count, stdin, os_pipe, buffer,
                 timed_out, answered, session_failed, mode_results>>

\* process.stdin.close() and process.wait(timeout=5) that returns: the
\* server has exited; the responses are returned
CloseSession ==
  /\ pc = "close"
  /\ process' = "exited"
  /\ pc' = "returned"
  /\ PipesDropped
  /\ UNCHANGED <<notstdio, test_cases, popen_count, stdin, output_line, timed_out,
                 responses, current, answered, session_failed, mode_results>>

\* process.wait(timeout=5) raises TimeoutExpired: the server keeps running
CloseTimesOut ==
  /\ pc = "close"
  /\ process = "running"
  /\ SessionFails
  /\ UNCHANGED <<notstdio, test_cases, process, popen_count, stdin,
                 output_line, timed_out, current, answered, mode_results>>

\* the session is between Popen and its return, and the server runs
ServerRuns == pc \notin {"start", "returned", "finished", "aborted"} /\ process = "running"

\* the server puts a reply line out for a request it was sent
ServerReply ==
  /\ ServerRuns
  /\ ~Unfinished
  /\ \E k \in (1..Len(stdin)) \ answered :
       \E text \in ReplyTexts(test_cases[k]) :
         /\ os_pipe' = Append(os_pipe, Line(k, text, TRUE))
         /\ answered' = answered \cup {k}
  /\ UNCHANGED <<notstdio, pc, test_cases, process, popen_count, stdin, buffer, output_line,
                 timed_out, responses, current, session_failed, mode_results>>

\* the server puts the start of a reply line out, without the newline
ServerStartsLine ==
  /\ ServerRuns
  /\ ~Unfinished
  /\ \E k \in (1..Len(stdin)) \ answered :
       \E text \in PartTexts(test_cases[k]) :
         /\ os_pipe' = Append(os_pipe, Line(k, text, FALSE))
         /\ answered' = answered \cup {k}
  /\ UNCHANGED <<notstdio, pc, test_cases, process, popen_count, stdin, buffer, output_line,
                 timed_out, responses, current, session_failed, mode_results>>

\* the server puts out the rest of the line it started, newline included;
\* what process.stdout holds of the line counts as in the pipe again
ServerEndsLine ==
  /\ ServerRuns
  /\ Unfinished
  /\ IF os_pipe # <<>>
     THEN /\ os_pipe' = [os_pipe EXCEPT ![Len(os_pipe)].nl = TRUE]
          /\ UNCHANGED buffer
     ELSE /\ os_pipe' = <<[buffer[Len(buffer)] EXCEPT !.nl = TRUE]>>
          /\ buffer' = SubSeq(buffer, 1, Len(buffer) - 1)
  /\ UNCHANGED <<notstdio, pc, test_cases, process, popen_count, stdin, output_line,
                 timed_out, responses, current, answered, session_failed, mode_results>>

\* the server exits while the session runs
ServerExit ==
  /\ ServerRuns
  /\ process' = "exited"
  /\ UNCHANGED <<notstdio, pc, test_cases, popen_count, stdin, os_pipe, buffer, output_line,
                 timed_out, responses, current, answered, session_failed, mode_results>>

\* run_mode_tests classifies zip(test_cases, responses) and returns the
\* ModeResults; an exception of validate_test_response escapes it
ClassifyResponses ==
  /\ pc = "returned"
  /\ \E c \in {ClassifyPairs(test_cases, responses, 1, order) :
                 order \in Orders(required_fields)} :
       IF c.raised
       THEN /\ pc' = "aborted"
            /\ UNCHANGED mode_results
       ELSE /\ pc' = "finished"
            /\ mode_results' =
                 ModeResults("stdio", Len(test_cases), CountResult(c.results, PASS),
                             CountResult(c.results, FAIL), CountResult(c.results, ERROR),
                             c.results,
                             SuccessRate(CountResult(c.results, PASS), Len(test_cases)))
  /\ UNCHANGED <<notstdio, test_cases, process, popen_count, stdin, os_pipe, buffer,
                 output_line, timed_out, responses, current, answered, session_failed>>

NextStdio ==
  \/ Popen
  \/ PopenFails
  \/ WriteRequest
  \/ WriteBrokenPipe
  \/ ReadLine
  \/ ReadBlocks
  \/ DeadlineExpires
  \/ ReadRaises
  \/ ReadTimeout
  \/ DecodeLine
  \/ CloseSession
  \/ CloseTimesOut
  \/ ServerReply
  \/ ServerStartsLine
  \/ ServerEndsLine
  \/ ServerExit
  \/ ClassifyResponses

SpecStdio == InitStdio /\ [][NextStdio]_vars

(***************************************************************************)
(* Properties of the stdio session, checked under SpecStdio.               *)
(***************************************************************************)
IsNoResponseCase(k) ==
  test_cases[k].is_notification /\ ~test_cases[k].should_have_response

\* C2: in a stdio session that ends without failure, each test case marked
\* as a no-response notification is PASS without error message when the
\* server sent nothing in reply to it, and FAIL with 'Unexpected response
\* for notification' when the server did send a reply to it.
C2_NotificationResponseFails ==
  (pc = "finished" /\ ~session_failed) =>
    \A k \in 1..Len(test_cases) :
      IsNoResponseCase(k) =>
        LET outcome == mode_results.test_cases[k] IN
          IF k \in answered
          THEN /\ outcome.result = FAIL
               /\ outcome.error_message = JStr("Unexpected response for notification")
          ELSE /\ outcome.result = PASS
               /\ outcome.error_message = None

\* C10: in stdio mode at most one server process is started and all writes
\* go to it; what was written is at every moment the requests of the test
\* cases in list order, all of them when the session ends without failure;
\* slot i of the response list is collected in iteration i; the returned
\* list has one slot per test case; and the outcome list has one outcome
\* per test case, the i-th being the classification of the i-th test case
\* against the i-th slot.
C10_OneSessionInOrder ==
  /\ popen_count <= 1
  /\ process # "none" => popen_count = 1
  /\ stdin # <<>> => popen_count = 1
  /\ Len(stdin) <= Len(test_cases)
  /\ \A k \in 1..Len(stdin) : stdin[k] = test_cases[k].request
  /\ pc \in {"write", "read", "readline", "overdue", "decode"} =>
       /\ Len(responses) = current - 1
       /\ Len(stdin) = IF pc = "write" THEN current - 1 ELSE current
  /\ pc \in {"returned", "finished", "aborted"} =>
       /\ Len(responses) = Len(test_cases)
       /\ ~session_failed => Len(stdin) = Len(test_cases)
  /\ pc = "finished" =>
       /\ mode_results.total = Len(test_cases)
       /\ Len(mode_results.test_cases) = Len(test_cases)
       /\ \A k \in 1..Len(test_cases) :
            LET outcome == mode_results.test_cases[k] IN
              /\ outcome.name = test_cases[k].name
              /\ outcome.request = test_cases[k].request
              /\ \E order \in Orders(required_fields) :
                   outcome = validate_test_response(test_cases[k], responses[k], order).case

\* a session that ran to its end: three requests written, the first
\* answered well (PASS), the notification given its None slot (PASS), the
\* third answered with another id (FAIL)
C10_Witness ==
  /\ pc = "finished"
  /\ ~session_failed
  /\ popen_count = 1
  /\ Len(stdin) >= 3
  /\ responses[1] # None /\ responses[2] = None /\ responses[3] # None
  /\ mode_results.test_cases[1].result = PASS
  /\ mode_results.test_cases[2].result = PASS
  /\ mode_results.test_cases[3].result = FAIL
  /\ mode_results.test_cases[3].response = responses[3]

\* a read of the current request's response is under way
Reading == pc \in {"read", "readline", "overdue"}

\* C11: in a stdio session the line whose decoded value is recorded as the
\* response of test case i is a line the server put out in reply to
\* request i, never the (late) reply to an earlier request or the reply to
\* a notification.
C11_RecordedLineRepliesToRequest ==
  (pc = "decode" /\ ResponseSlot(output_line) # None) => output_line.reply_to = current

\* C12: a stdio read attempt has returned to its caller when its deadline
\* expires: no read is still under way after its deadline, whatever the
\* server has written, the start of a line without newline included.
C12_ReadReturnsByDeadline == pc # "overdue"

\* C13: what a stdio read attempt hands to its caller is nothing or one
\* line that has its newline, never a text without its newline, also when
\* the server exits in the middle of a line.
C13_CompleteLineOrNothing ==
  pc = "decode" => IF output_line = NoLine THEN TRUE ELSE output_line.nl

\* C14: when the read of request k ends at its deadline with no line, the
\* session goes on and sends every later request, test case k is ERROR
\* 'No response from server', and the line taken as the response of a later
\* request is never the reply to the request that timed out, so that a
\* later test case has the outcome its own reply gives it.
C14_TimeoutAffectsOneCase ==
  /\ (pc = "decode" /\ output_line # NoLine) => output_line.reply_to \notin timed_out
  /\ (pc \in {"returned", "finished", "aborted"} /\ ~session_failed /\ timed_out # {})
       => Len(stdin) = Len(test_cases)
  /\ (pc = "finished" /\ ~session_failed) =>
       \A k \in timed_out :
         /\ mode_results.test_cases[k].result = ERROR
         /\ mode_results.test_cases[k].error_message = JStr("No response from server")

\* C15: whatever JSON values the server returns, run_mode_tests(STDIO)
\* ends by returning a ModeResults that holds one outcome for every test
\* case; no exception of the classification of one case escapes it.
C15_EveryCaseGetsOutcome ==
  pc \in {"finished", "aborted"} =>
    IF mode_results = None THEN FALSE
    ELSE Len(mode_results.test_cases) = Len(test_cases)

\* C17: when the write or flush of request k fails with a broken pipe, the
\* responses collected for the requests before k are kept in the response
\* list that the session returns.
C17_BrokenPipeKeepsEarlier ==
  [][(pc = "write" /\ process = "exited" /\ pc' = "returned") =>
       \A j \in 1..Len(responses) : responses'[j] = responses[j]]_vars

\* C19: a response line that cannot be decoded as JSON gives the current
\* request a None slot and nothing else: while a read is under way and the
\* server's output holds such a line the session does not end in its except
\* clause, and after such a line was read the loop goes on with the next
\* request.
C19_UndecodableLineNotFatal ==
  [][/\ (Reading /\ \E n \in 1..Len(Stream) :
                      Stream[n].text \in {GarbageLine, UndecodableLine})
          => ~session_failed'
     /\ (pc = "decode" /\ output_line # NoLine
           /\ output_line.text \in {GarbageLine, UndecodableLine})
          => /\ responses' = Append(responses, None)
             /\ pc' = AfterRequest(current)]_vars

\* C20: the write of a message without 'id' is one step with the None slot
\* and the move to the next message: it leaves the server's output as it
\* is, and no read is ever under way for a message without 'id'.
C20_NotificationNeverReads ==
  /\ [](pc \in {"read", "readline", "overdue", "decode"}
          => HasKey(test_cases[current].request, "id"))
  /\ [][(pc = "write" /\ stdin' # stdin /\ ~HasKey(test_cases[current].request, "id"))
          => /\ responses' = Append(responses, None)
             /\ current' = current + 1
             /\ pc' = AfterRequest(current)
             /\ os_pipe' = os_pipe /\ buffer' = buffer
             /\ output_line' = output_line]_vars

\* the notification was written, its slot is None, the server's reply to
\* it lies unread in the pipe and the next request is being written
C20_Witness ==
  /\ pc = "write" /\ current = 3
  /\ ~HasKey(test_cases[2].request, "id")
  /\ Len(stdin) = 2
  /\ responses[2] = None
  /\ os_pipe # <<>> /\ Head(os_pipe).reply_to = 2

(***************************************************************************)
(* SpecHttp: one POST of a test case's request in HTTP mode, answered by   *)
(* the server in one of the ways of HttpUniverse: send_http_request alone, *)
(* and run_test_case over it.                                              *)
(***************************************************************************)
InitHttp ==
  /\ test_case \in TestCaseUniverse
  /\ http_response \in HttpUniverse(test_case)
  /\ http_returned = NoHttp
  /\ response = None
  /\ called = ""
  /\ errors = Returns(<<>>)
  /\ result_case = Returned(None)
  /\ SessionIdle
  /\ RunIdle
  /\ SimpleIdle
  /\ ReaderIdle

CallSendHttpRequest ==
  /\ called = ""
  /\ called' = "send_http_request"
  /\ http_returned' \in {send_http_request(http_response, version) :
                           version \in RequestsVersions}
  /\ UNCHANGED <<test_case, response, errors, result_case, http_response, svars, rvars, tvars, wvars>>

CallRunTestCaseHttp ==
  /\ called = ""
  /\ called' = "run_test_case"
  /\ \E version \in RequestsVersions :
       LET sent == send_http_request(http_response, version) IN
         /\ http_returned' = sent
         /\ response' = sent.value
         /\ result_case' \in {Returned(run_test_case_http(test_case, sent, order)) :
                                order \in Orders(required_fields)}
  /\ UNCHANGED <<test_case, errors, http_response, svars, rvars, tvars, wvars>>

NextHttp ==
  \/ CallSendHttpRequest
  \/ CallRunTestCaseHttp

SpecHttp == InitHttp /\ [][NextHttp]_vars

(***************************************************************************)
(* Properties of the HTTP transport, checked under SpecHttp.               *)
(***************************************************************************)
\* C16: in HTTP mode a test case whose POST the server answers with a
\* status other than 200 and 204 is classified ERROR, the test cases marked
\* as no-response notifications included.
C16_OtherStatusIsError ==
  (called = "run_test_case" /\ http_response # RequestFailed
     /\ http_response.status_code \notin {200, 204}) =>
    result_case.case.result = ERROR

\* C18: send_http_request raises nothing; it returns None for status 204,
\* the decoded body for status 200 with a JSON body, and None for status
\* 200 with a body that cannot be decoded as JSON.
C18_HttpStatusAndBody ==
  (called = "send_http_request" /\ http_response # RequestFailed) =>
    /\ ~http_returned.raised
    /\ http_response.status_code = 204 => http_returned.value = None
    /\ (http_response.status_code = 200 /\ http_response.body.kind = "json")
         => http_returned.value = http_response.body.value
    /\ (http_response.status_code = 200 /\ http_response.body.kind # "json")
         => http_returned.value = None

(***************************************************************************)
(* SpecRun: one run of main.  run_all_tests runs run_mode_tests(STDIO)     *)
(* and then run_mode_tests(HTTP) as --mode selects; the stdio session is   *)
(* taken as a whole (SpecStdio has its steps), the start, the health       *)
(* check, the batch and the stop of the HTTP server step by step.  The     *)
(* server processes are black boxes that may exit at any time, and SIGINT  *)
(* may be delivered once at any point after the handler is installed.      *)
(***************************************************************************)
\* max_wait of start_http_server
max_wait == 12

Modes == {"stdio", "http", "both"}

\* the test cases a run drives
RunCases == SubSeq(create_test_cases, 1, MaxRunCases)

\* ModeResults(mode, 0, 0, 0, 1, [], 0.0) and ModeResults(mode, 0, 0, 0, 0, [], 0.0)
ErrorResults(m) == ModeResults(m, 0, 0, 0, 1, <<>>, SuccessRate(0, 0))
SkippedResults(m) == ModeResults(m, 0, 0, 0, 0, <<>>, SuccessRate(0, 0))

\* the Popen object of the HTTP server process
PopenHandle == [t |-> "Popen"]

\* sub in s
Contains(s, sub) ==
  \E n \in 1..(Len(s) - Len(sub) + 1) : SubSeq(s, n, n + Len(sub) - 1) = sub

\* what the HTTP server process may write to stderr before it exits
StderrTexts ==
  {"", "java.net.BindException: Address already in use",
   "Error: Unable to access jarfile"}

\* "already in use" in stderr or "BindException" in stderr
MentionsBind(stderr) == Contains(stderr, "already in use") \/ Contains(stderr, "BindException")

\* the failure report of start_http_server for a process that has exited
NoReport == [t |-> "no report"]
FailureReport(stderr) ==
  [t |-> "report", stderr |-> stderr, port_in_use |-> MentionsBind(stderr)]

\* the response lists send_stdio_session_requests can return for the test
\* cases from k on: None for a message without id, else None or the decoded
\* value of a line of the server
RECURSIVE SessionResponses(_)
SessionResponses(k) ==
  IF k > Len(RunCases) THEN {<<>>}
  ELSE LET slots == IF HasKey(RunCases[k].request, "id")
                    THEN {None} \cup {ResponseSlot(Line(k, text, TRUE)) :
                                        text \in ReplyTexts(RunCases[k])}
                    ELSE {None}
       IN {<<slot>> \o rest : slot \in slots, rest \in SessionResponses(k + 1)}

\* what the server answers to the POST of a test case in a run: a compliant
\* response, an error response, or status 500
RunAnswers(tc) ==
  LET id == IF HasKey(tc.request, "id") THEN ExpectedId(tc) ELSE Absent
  IN {HttpResponse(200, JsonBody(MakeResponse(JStr("2.0"), id, GoodResult(Method(tc)),
                                               Absent, {}))),
      HttpResponse(200, JsonBody(MakeResponse(JStr("2.0"), id, Absent, ValidError, {}))),
      HttpResponse(500, TextBody)}

\* the outcome records run_test_case can return for a test case in HTTP
\* mode; a server that has exited answers no POST
CaseOutcomes(tc, serving) ==
  {run_test_case_http(tc, send_http_request(http, version), order) :
     http \in IF serving THEN RunAnswers(tc) ELSE {RequestFailed},
     version \in RequestsVersions, order \in Orders(required_fields)}

\* the positions inside stop_http_server and inside start_http_server
StopAts == {"stop", "stop:wait"}
StartAts == {"http:Popen", "http:drain", "http:poll", "http:probe", "http:sleep"}
InStart == at \in StartAts \/ (at \in StopAts /\ stop_then = "start_false")

\* sys.exit(code)
SysExit(code) == [t |-> "SystemExit", code |-> code]

\* results.total == 0 or results.success_rate == 100.0
ModeOk(mode_results_) ==
  \/ mode_results_.total = 0
  \/ mode_results_.success_rate.num = 100 * mode_results_.success_rate.den

\* the exit code main determines from the two ModeResults; a mode that
\* was not selected has the ModeResults(mode, 0, 0, 0, 0, [], 0.0) of
\* run_all_tests
ExitCode(stdio, http) ==
  LET stdio_ok == ModeOk(IF stdio = None THEN SkippedResults("stdio") ELSE stdio)
      http_ok == ModeOk(IF http = None THEN SkippedResults("http") ELSE http)
  IN IF stdio_ok /\ http_ok THEN 0 ELSE 1

runargs == <<mode, HAS_REQUESTS>>
stdiovars == <<stdio_process, stdio_failed, stdio_results>>
startvars == <<drain_started, probes, stderr_pipe, stderr_written, reported>>

InitRun ==
  /\ ValidateIdle
  /\ SessionIdle
  /\ HttpIdle
  /\ SimpleIdle
  /\ ReaderIdle
  /\ mode \in Modes
  /\ HAS_REQUESTS \in BOOLEAN
  /\ at = "main"
  /\ stop_then = ""
  /\ stdio_process = "none"
  /\ stdio_failed = FALSE
  /\ server_process = None
  /\ http_process = "none"
  /\ drain_started = FALSE
  /\ probes = 0
  /\ stderr_pipe = ""
  /\ stderr_written = ""
  /\ reported = NoReport
  /\ start_returned = ""
  /\ killed = FALSE
  /\ results = <<>>
  /\ stdio_results = None
  /\ http_results = None
  /\ interrupted = FALSE
  /\ exit_status = None

\* main: --mode http without the requests library exits at once; else
\* run_all_tests, whose prerequisites hold, goes to the first selected mode
RunAllTests ==
  /\ at = "main"
  /\ at' = IF mode = "http" /\ ~HAS_REQUESTS THEN "exited"
           ELSE IF mode \in {"stdio", "both"} THEN "stdio:Popen" ELSE "http:port"
  /\ exit_status' = IF mode = "http" /\ ~HAS_REQUESTS THEN SysExit(1) ELSE exit_status
  /\ UNCHANGED <<notrun, runargs, stop_then, stdiovars, server_process,
                 http_process, startvars, start_returned, killed, results, http_results,
                 interrupted>>

\* run_all_tests: check_prerequisites fails, no mode runs
PrerequisitesFail ==
  /\ at = "main"
  /\ ~(mode = "http" /\ ~HAS_REQUESTS)
  /\ stdio_results' = ErrorResults("stdio")
  /\ http_results' = ErrorResults("http")
  /\ at' = "summary"
  /\ UNCHANGED <<notrun, runargs, exit_status, stop_then, stdio_process, stdio_failed,
                 server_process, http_process, startvars, start_returned, killed, results,
                 interrupted>>

\* send_stdio_session_requests: subprocess.Popen
StdioPopen ==
  /\ at = "stdio:Popen"
  /\ stdio_process' = "running"
  /\ at' = "stdio:session"
  /\ UNCHANGED <<notrun, runargs, exit_status, stop_then, stdio_failed, stdio_results,
                 server_process, http_process, startvars, start_returned, killed, results,
                 http_results, interrupted>>

\* subprocess.Popen raises: the except clause
StdioPopenFails ==
  /\ at = "stdio:Popen"
  /\ stdio_failed' = TRUE
  /\ at' = "stdio:classify"
  /\ UNCHANGED <<notrun, runargs, exit_status, stop_then, stdio_process, stdio_results,
                 server_process, http_process, startvars, start_returned, killed, results,
                 http_results, interrupted>>

\* the loop over the requests ends; process.stdin.close()
StdioSessionEnds ==
  /\ at = "stdio:session"
  /\ at' = "stdio:wait"
  /\ UNCHANGED <<notrun, runargs, exit_status, stop_then, stdiovars, server_process,
                 http_process, startvars, start_returned, killed, results, http_results,
                 interrupted>>

\* a write, a flush or a read of the loop raises: the except clause
StdioSessionRaises ==
  /\ at = "stdio:session"
  /\ stdio_failed' = TRUE
  /\ at' = "stdio:classify"
  /\ UNCHANGED <<notrun, runargs, exit_status, stop_then, stdio_process, stdio_results,
                 server_process, http_process, startvars, start_returned, killed, results,
                 http_results, interrupted>>

\* process.wait(timeout=5) returns: the server has exited
StdioWaitReturns ==
  /\ at = "stdio:wait"
  /\ stdio_process = "exited"
  /\ at' = "stdio:classify"
  /\ UNCHANGED <<notrun, runargs, exit_status, stop_then, stdiovars, server_process,
                 http_process, startvars, start_returned, killed, results, http_results,
                 interrupted>>

\* process.wait(timeout=5) raises TimeoutExpired: the except clause
StdioWaitTimesOut ==
  /\ at = "stdio:wait"
  /\ stdio_process = "running"
  /\ stdio_failed' = TRUE
  /\ at' = "stdio:classify"
  /\ UNCHANGED <<notrun, runargs, exit_status, stop_then, stdio_process, stdio_results,
                 server_process, http_process, startvars, start_returned, killed, results,
                 http_results, interrupted>>

\* the stdio server exits
StdioServerExits ==
  /\ at # "exited"
  /\ stdio_process = "running"
  /\ stdio_process' = "exited"
  /\ UNCHANGED <<notrun, runargs, exit_status, at, stop_then, stdio_failed, stdio_results,
                 server_process, http_process, startvars, start_returned, killed, results,
                 http_results, interrupted>>

\* run_mode_tests(STDIO) classifies the returned list; an exception of
\* validate_test_response reaches the except Exception of main, which calls
\* stop_http_server and exits
StdioClassify ==
  /\ at = "stdio:classify"
  /\ \E c \in {ClassifyPairs(RunCases, resps, 1, order) :
                 resps \in IF stdio_failed THEN {Nones(Len(RunCases))}
                           ELSE SessionResponses(1),
                 order \in Orders(required_fields)} :
       IF c.raised
       THEN /\ at' = "stop"
            /\ stop_then' = "sys_exit"
            /\ UNCHANGED stdio_results
       ELSE /\ stdio_results' =
                 ModeResults("stdio", Len(RunCases), CountResult(c.results, PASS),
                             CountResult(c.results, FAIL), CountResult(c.results, ERROR),
                             c.results,
                             SuccessRate(CountResult(c.results, PASS), Len(RunCases)))
            /\ at' = IF mode = "both" THEN "http:port" ELSE "summary"
            /\ UNCHANGED stop_then
  /\ UNCHANGED <<notrun, runargs, exit_status, stdio_process, stdio_failed,
                 server_process, http_process, startvars, start_returned, killed, results,
                 http_results, interrupted>>

\* run_mode_tests(HTTP) without the requests library
HttpSkipped ==
  /\ at = "http:port"
  /\ ~HAS_REQUESTS
  /\ http_results' = SkippedResults("http")
  /\ at' = "summary"
  /\ UNCHANGED <<notrun, runargs, exit_status, stop_then, stdiovars, server_process,
                 http_process, startvars, start_returned, killed, results, interrupted>>

\* check_port_availability returns False
PortCheckFails ==
  /\ at = "http:port"
  /\ HAS_REQUESTS
  /\ http_results' = ErrorResults("http")
  /\ at' = "summary"
  /\ UNCHANGED <<notrun, runargs, exit_status, stop_then, stdiovars, server_process,
                 http_process, startvars, start_returned, killed, results, interrupted>>

\* check_port_availability returns True
PortCheckPasses ==
  /\ at = "http:port"
  /\ HAS_REQUESTS
  /\ at' = "http:Popen"
  /\ UNCHANGED <<notrun, runargs, exit_status, stop_then, stdiovars, server_process,
                 http_process, startvars, start_returned, killed, results, http_results,
                 interrupted>>

\* start_http_server: self.server_process = subprocess.Popen(...)
HttpPopen ==
  /\ at = "http:Popen"
  /\ server_process' = PopenHandle
  /\ http_process' = "running"
  /\ at' = "http:drain"
  /\ UNCHANGED <<notrun, runargs, exit_status, stop_then, stdiovars, startvars,
                 start_returned, killed, results, http_results, interrupted>>

\* subprocess.Popen raises: except Exception, return False
HttpPopenFails ==
  /\ at = "http:Popen"
  /\ start_returned' = "False"
  /\ http_results' = ErrorResults("http")
  /\ at' = "summary"
  /\ UNCHANGED <<notrun, runargs, exit_status, stop_then, stdiovars, server_process,
                 http_process, startvars, killed, results, interrupted>>

\* _start_http_drain starts the two drain threads
StartHttpDrain ==
  /\ at = "http:drain"
  /\ drain_started' = TRUE
  /\ at' = "http:poll"
  /\ UNCHANGED <<notrun, runargs, exit_status, stop_then, stdiovars, server_process,
                 http_process, probes, stderr_pipe, stderr_written, reported,
                 start_returned, killed, results, http_results, interrupted>>

\* thread.start() raises (RuntimeError: can't start new thread): except
\* Exception, return False, and run_mode_tests returns
StartHttpDrainRaises ==
  /\ at = "http:drain"
  /\ start_returned' = "False"
  /\ http_results' = ErrorResults("http")
  /\ at' = "summary"
  /\ UNCHANGED <<notrun, runargs, exit_status, stop_then, stdiovars, server_process,
                 http_process, startvars, killed, results, interrupted>>

\* self.server_process.poll() is None
PollRunning ==
  /\ at = "http:poll"
  /\ http_process = "running"
  /\ at' = "http:probe"
  /\ UNCHANGED <<notrun, runargs, exit_status, stop_then, stdiovars, server_process,
                 http_process, startvars, start_returned, killed, results, http_results,
                 interrupted>>

\* poll() is not None: communicate() returns what is left in the pipes, the
\* failure is reported, return False
PollExited ==
  /\ at = "http:poll"
  /\ http_process = "exited"
  /\ reported' = FailureReport(stderr_pipe)
  /\ stderr_pipe' = ""
  /\ start_returned' = "False"
  /\ http_results' = ErrorResults("http")
  /\ at' = "summary"
  /\ UNCHANGED <<notrun, runargs, exit_status, stop_then, stdiovars, server_process,
                 http_process, drain_started, probes, stderr_written, killed, results,
                 interrupted>>

\* requests.get(.../health) returns status 200: return True
ProbeOk ==
  /\ at = "http:probe"
  /\ http_process = "running"
  /\ probes' = probes + 1
  /\ start_returned' = "True"
  /\ at' = "http:health"
  /\ UNCHANGED <<notrun, runargs, exit_status, stop_then, stdiovars, server_process,
                 http_process, drain_started, stderr_pipe, stderr_written, reported, killed,
                 results, http_results, interrupted>>

\* requests.get raises RequestException or returns another status
ProbeFails ==
  /\ at = "http:probe"
  /\ probes' = probes + 1
  /\ at' = "http:sleep"
  /\ UNCHANGED <<notrun, runargs, exit_status, stop_then, stdiovars, server_process,
                 http_process, drain_started, stderr_pipe, stderr_written, reported,
                 start_returned, killed, results, http_results, interrupted>>

\* time.sleep(1) without the stop_http_server after the last probe
Sleep_NoStop ==
  /\ at = "http:sleep"
  /\ IF probes < max_wait
     THEN /\ at' = "http:poll"
          /\ UNCHANGED <<start_returned, http_results>>
     ELSE /\ at' = "summary"
          /\ start_returned' = "False"
          /\ http_results' = ErrorResults("http")
  /\ UNCHANGED <<notrun, runargs, exit_status, stop_then, stdiovars, server_process,
                 http_process, startvars, killed, results, interrupted>>

\* time.sleep(1) and the next round of the loop; after max_wait rounds
\* stop_http_server, then return False
Sleep ==
  /\ at = "http:sleep"
  /\ IF probes < max_wait
     THEN /\ at' = "http:poll"
          /\ UNCHANGED stop_then
     ELSE /\ at' = "stop"
          /\ stop_then' = "start_false"
  /\ UNCHANGED <<notrun, runargs, exit_status, stdiovars, server_process, http_process,
                 startvars, start_returned, killed, results, http_results, interrupted>>

\* test_health_endpoint returns True
HealthOk ==
  /\ at = "http:health"
  /\ http_process = "running"
  /\ at' = "http:batch"
  /\ UNCHANGED <<notrun, runargs, exit_status, stop_then, stdiovars, server_process,
                 http_process, startvars, start_returned, killed, results, http_results,
                 interrupted>>

\* test_health_endpoint returns False: stop_http_server, then the error entry
HealthFails ==
  /\ at = "http:health"
  /\ at' = "stop"
  /\ stop_then' = "health_failed"
  /\ UNCHANGED <<notrun, runargs, exit_status, stdiovars, server_process, http_process,
                 startvars, start_returned, killed, results, http_results, interrupted>>

\* one round of the HTTP loop: results.append(run_test_case(test_case, mode))
RunCase ==
  /\ at = "http:batch"
  /\ Len(results) < Len(RunCases)
  /\ \E outcome \in CaseOutcomes(RunCases[Len(results) + 1], http_process = "running") :
       results' = Append(results, outcome)
  /\ UNCHANGED <<notrun, runargs, exit_status, at, stop_then, stdiovars, server_process,
                 http_process, startvars, start_returned, killed, http_results,
                 interrupted>>

\* an exception leaves the try of run_mode_tests (print raises
\* UnicodeEncodeError for the mark of an outcome line): finally
\* stop_http_server, and the exception goes on to main
BatchRaises ==
  /\ at = "http:batch"
  /\ at' = "stop"
  /\ stop_then' = "propagate"
  /\ UNCHANGED <<notrun, runargs, exit_status, stdiovars, server_process, http_process,
                 startvars, start_returned, killed, results, http_results, interrupted>>

\* the loop is over: finally stop_http_server, then the ModeResults
BatchDone ==
  /\ at = "http:batch"
  /\ Len(results) = Len(RunCases)
  /\ at' = "stop"
  /\ stop_then' = "return_results"
  /\ UNCHANGED <<notrun, runargs, exit_status, stdiovars, server_process, http_process,
                 startvars, start_returned, killed, results, http_results, interrupted>>

\* what follows the return of stop_http_server
AfterStop ==
  /\ at' = CASE stop_then = "propagate" -> "stop"
             [] stop_then = "sys_exit" -> "exited"
             [] OTHER -> "summary"
  /\ stop_then' = IF stop_then = "propagate" THEN "sys_exit" ELSE ""
  /\ exit_status' = IF stop_then = "sys_exit" THEN SysExit(1) ELSE exit_status
  /\ start_returned' = IF stop_then = "start_false" THEN "False" ELSE start_returned
  /\ http_results' =
       CASE stop_then \in {"start_false", "health_failed"} -> ErrorResults("http")
         [] stop_then = "return_results" ->
              ModeResults("http", Len(RunCases), CountResult(results, PASS),
                          CountResult(results, FAIL), CountResult(results, ERROR),
                          results, SuccessRate(CountResult(results, PASS), Len(RunCases)))
         [] OTHER -> http_results

\* stop_http_server: self.server_process is None, nothing to do
StopNothing ==
  /\ at = "stop"
  /\ server_process = None
  /\ AfterStop
  /\ UNCHANGED <<notrun, runargs, stdiovars, server_process, http_process,
                 startvars, killed, results, interrupted>>

\* self.server_process.terminate(), then wait(timeout=5)
StopTerminate ==
  /\ at = "stop"
  /\ server_process # None
  /\ at' = "stop:wait"
  /\ UNCHANGED <<notrun, runargs, exit_status, stop_then, stdiovars, server_process,
                 http_process, startvars, start_returned, killed, results, http_results,
                 interrupted>>

\* wait(timeout=5) returns; finally the handle is cleared
StopWaitReturns ==
  /\ at = "stop:wait"
  /\ http_process = "exited"
  /\ server_process' = None
  /\ AfterStop
  /\ UNCHANGED <<notrun, runargs, stdiovars, http_process, startvars, killed,
                 results, interrupted>>

\* wait(timeout=5) raises TimeoutExpired and the handle is cleared without
\* kill()
StopWaitTimesOut_NoKill ==
  /\ at = "stop:wait"
  /\ http_process = "running"
  /\ server_process' = None
  /\ AfterStop
  /\ UNCHANGED <<notrun, runargs, stdiovars, http_process, startvars, killed,
                 results, interrupted>>

\* wait(timeout=5) raises TimeoutExpired: kill(), wait(); finally the
\* handle is cleared
StopWaitTimesOut ==
  /\ at = "stop:wait"
  /\ http_process = "running"
  /\ killed' = TRUE
  /\ http_process' = "exited"
  /\ server_process' = None
  /\ AfterStop
  /\ UNCHANGED <<notrun, runargs, stdiovars, startvars, results, interrupted>>

\* the HTTP server process exits; while start_http_server is under way it
\* may have written an error text to stderr
HttpServerExits ==
  /\ at # "exited"
  /\ http_process = "running"
  /\ http_process' = "exited"
  /\ \E text \in IF at \in StartAts THEN StderrTexts ELSE {""} :
       /\ stderr_written' = text
       /\ stderr_pipe' = text
  /\ UNCHANGED <<notrun, runargs, exit_status, at, stop_then, stdiovars, server_process,
                 drain_started, probes, reported, start_returned, killed, results,
                 http_results, interrupted>>

\* the drain thread of stderr reads the text and throws it away
DrainStderr ==
  /\ at # "exited"
  /\ drain_started
  /\ stderr_pipe # ""
  /\ stderr_pipe' = ""
  /\ UNCHANGED <<notrun, runargs, exit_status, at, stop_then, stdiovars, server_process,
                 http_process, drain_started, probes, stderr_written, reported,
                 start_returned, killed, results, http_results, interrupted>>

\* SIGINT: signal_handler calls tester.stop_http_server() and sys.exit(1)
Interrupt ==
  /\ at \notin {"main", "exited"}
  /\ ~interrupted
  /\ interrupted' = TRUE
  /\ at' = "stop"
  /\ stop_then' = "sys_exit"
  /\ UNCHANGED <<notrun, runargs, exit_status, stdiovars, server_process, http_process,
                 startvars, start_returned, killed, results, http_results>>

\* run_all_tests returns and main exits with the code it determines
Exit ==
  /\ at = "summary"
  /\ at' = "exited"
  /\ exit_status' = SysExit(ExitCode(stdio_results, http_results))
  /\ UNCHANGED <<notrun, runargs, stop_then, stdiovars, server_process,
                 http_process, startvars, start_returned, killed, results, http_results,
                 interrupted>>

\* the steps of the harness itself
HarnessStep ==
  \/ RunAllTests
  \/ PrerequisitesFail
  \/ StdioPopen
  \/ StdioPopenFails
  \/ StdioSessionEnds
  \/ StdioSessionRaises
  \/ StdioWaitReturns
  \/ StdioWaitTimesOut
  \/ StdioClassify
  \/ HttpSkipped
  \/ PortCheckFails
  \/ PortCheckPasses
  \/ HttpPopen
  \/ HttpPopenFails
  \/ StartHttpDrain
  \/ StartHttpDrainRaises
  \/ PollRunning
  \/ PollExited
  \/ ProbeOk
  \/ ProbeFails
  \/ Sleep
  \/ HealthOk
  \/ HealthFails
  \/ RunCase
  \/ BatchRaises
  \/ BatchDone
  \/ StopNothing
  \/ StopTerminate
  \/ StopWaitReturns
  \/ StopWaitTimesOut
  \/ Exit

NextRun ==
  \/ HarnessStep
  \/ StdioServerExits
  \/ HttpServerExits
  \/ DrainStderr
  \/ Interrupt

SpecRun == InitRun /\ [][NextRun]_vars

\* the steps of start_http_server and of stop_http_server
StartStep ==
  \/ HttpPopen
  \/ HttpPopenFails
  \/ StartHttpDrain
  \/ StartHttpDrainRaises
  \/ PollRunning
  \/ PollExited
  \/ ProbeOk
  \/ ProbeFails
  \/ Sleep
  \/ StopNothing
  \/ StopTerminate
  \/ StopWaitReturns
  \/ StopWaitTimesOut

\* start_http_server and stop_http_server are sequential code each of whose
\* waits has a timeout (the probe 1 s, the sleep 1 s, wait 5 s; the wait
\* after kill() ends with the process): a step of them that can be taken
\* is taken
SpecRunLive == SpecRun /\ WF_vars(StartStep)

(***************************************************************************)
(* Properties of the server processes and of a whole run.                  *)
(***************************************************************************)
\* a step in which stop_http_server returns to its caller
StopReturns ==
  /\ at \in StopAts
  /\ interrupted' = interrupted
  /\ at' \notin StopAts \/ stop_then' # stop_then

\* C21: start_http_server makes at most max_wait = 12 probes, one in each
\* round of a loop that sleeps 1 second between rounds, and it ends.  It
\* returns once; True only in a round in which poll() found the process
\* running and the probe then returned 200; False when poll() finds the
\* process exited; and False after the 12th failed probe, with the server
\* process stopped and the handle cleared by then.
C21_BoundedProbesThenReturns ==
  /\ [](probes <= max_wait)
  /\ [][/\ probes' # probes => at = "http:probe" /\ probes' = probes + 1
        /\ start_returned' # start_returned => start_returned = ""
        /\ (start_returned' = "True" /\ start_returned = "") =>
             at = "http:probe" /\ http_process = "running" /\ reported = NoReport
        /\ (at = "http:poll" /\ http_process = "exited" /\ at' # at) =>
             start_returned' = "False" \/ interrupted'
        /\ (at = "http:sleep" /\ probes = max_wait /\ at' # at) => at' = "stop"
        /\ (start_returned' = "False" /\ start_returned = "" /\ probes = max_wait) =>
             server_process' = None /\ http_process' # "running"]_vars
  /\ (InStart ~> ~InStart)

C21_Witness ==
  /\ start_returned = "False"
  /\ probes = max_wait
  /\ killed
  /\ ~interrupted
  /\ http_results = ErrorResults("http")

\* C22: when the HTTP server process exits before a probe succeeds, the
\* failure report of start_http_server carries the text the process wrote
\* to stderr, and a bind-address-in-use message in that text is reported
\* as port in use.
C22_FailureReportCarriesStderr ==
  reported # NoReport =>
    /\ reported.stderr = stderr_written
    /\ MentionsBind(stderr_written) => reported.port_in_use

\* C23: stop_http_server calls kill() only after terminate() and a wait of
\* 5 seconds that the process outlived; when it returns the process is not
\* running and the handle is None; entered with the handle None or with an
\* exited process it kills nothing and changes no process.
C23_StopIsGracefulAndIdempotent ==
  /\ [](server_process = None => http_process # "running")
  /\ [][/\ StopReturns => server_process' = None /\ http_process' # "running"
        /\ (killed' /\ ~killed) => at = "stop:wait" /\ http_process = "running"
        /\ (at \in StopAts /\ http_process # "running") =>
             killed' = killed /\ http_process' = http_process
        /\ (at \in StopAts /\ server_process = None) => server_process' = None]_vars

C23_Witness ==
  /\ at = "stop"
  /\ stop_then = "sys_exit"
  /\ killed
  /\ server_process = None
  /\ http_process = "exited"
  /\ ~interrupted

\* C24: after send_stdio_session_requests has returned, on any path, the
\* server process it started is not running.
C24_SessionLeavesNoProcess ==
  pc \in {"returned", "finished", "aborted"} => process # "running"

\* C25: the server process of the stdio session and the server process of
\* HTTP mode are never alive together.
C25_OneServerAtATime ==
  ~(stdio_process = "running" /\ http_process = "running")

\* C26: when run_mode_tests(HTTP) has returned, whatever way it ended, no
\* HTTP server process the harness started is running.
C26_HttpRunLeavesNoProcess ==
  (http_results # None \/ at = "exited") => http_process # "running"

\* C27: when the harness has exited after a SIGINT, no server process it
\* started, of the stdio session or of HTTP mode, is running.
C27_InterruptStopsServers ==
  (at = "exited" /\ interrupted) =>
    stdio_process # "running" /\ http_process # "running"

\* C28: when the stdio server could not be launched, or exited before it
\* answered the first request, run_mode_tests(STDIO) returns errors = 1,
\* passed = 0 and an empty outcome list.
C28_StartFailureIsOneError ==
  (pc = "finished" /\ (popen_count = 0 \/ (process = "exited" /\ answered = {}))) =>
    /\ mode_results.errors = 1
    /\ mode_results.passed = 0
    /\ mode_results.test_cases = <<>>

\* a ModeResults has the success rate the claim states
RateAsStated(r) ==
  /\ r.total > 0 => r.success_rate.num * r.total = r.passed * 100 * r.success_rate.den
  /\ r.total = 0 => r.success_rate.num = 0
  /\ r.success_rate.den > 0
  /\ (r.success_rate.num = 100 * r.success_rate.den) <=>
       /\ r.total > 0
       /\ Len(r.test_cases) = r.total
       /\ \A n \in 1..Len(r.test_cases) : r.test_cases[n].result = PASS

\* C29: every ModeResults run_mode_tests returns has success_rate =
\* passed / total * 100 when total > 0 and 0 when total = 0; success_rate is
\* 100 exactly when total > 0 and every test case passed.
C29_SuccessRate ==
  /\ stdio_results # None => RateAsStated(stdio_results)
  /\ http_results # None => RateAsStated(http_results)

C29_Witness ==
  /\ stdio_results # None
  /\ stdio_results.total > 0
  /\ stdio_results.passed < stdio_results.total
  /\ http_results # None
  /\ http_results.passed = http_results.total
  /\ http_results.total = Len(RunCases)

\* C30: a classification leaves the test-case specification as it was, with
\* the dataclass defaults in result, response, error_message and
\* execution_time, and the outcome record it returns carries the
\* specification's name, request, expected_fields and flags.
C30_SpecificationUnchanged ==
  /\ [][test_case' = test_case]_vars
  /\ [](/\ test_case.result = ERROR
        /\ test_case.response = None
        /\ test_case.error_message = None
        /\ test_case.execution_time = JFloat(0, FALSE))
  /\ []((Classified /\ ~result_case.raised) =>
          /\ result_case.case.name = test_case.name
          /\ result_case.case.request = test_case.request
          /\ result_case.case.expected_fields = test_case.expected_fields
          /\ result_case.case.is_notification = test_case.is_notification
          /\ result_case.case.should_have_response = test_case.should_have_response)

C30_Witness ==
  /\ called = "validate_test_response"
  /\ ~result_case.raised
  /\ result_case.case.result = PASS
  /\ result_case.case.response # None
  /\ test_case.result = ERROR
  /\ test_case.response = None

(***************************************************************************)
(* Properties of the results of a run and of the two classification paths. *)
(***************************************************************************)
\* the ModeResults run_mode_tests has returned so far in this run; when
\* check_prerequisites fails run_all_tests builds the two itself
ReturnedModeResults ==
  IF stdio_results = ErrorResults("stdio") THEN {}
  ELSE {stdio_results, http_results} \ {None}

\* C36: every ModeResults returned by run_mode_tests has passed + failed +
\* errors = total, and total is the number of outcome records of its
\* test_cases list.
C36_CountsAddUp ==
  \A r \in ReturnedModeResults :
    /\ r.passed + r.failed + r.errors = r.total
    /\ r.total = Len(r.test_cases)

\* C37: for every test case and every response value the stdio path
\* (validate_test_response) and the HTTP path (run_test_case on that same
\* response) end in the same result and the same error_message.
C37_BothPathsClassifyAlike ==
  \A order \in Orders(required_fields) :
    LET stdio == validate_test_response(test_case, response, order)
        http == run_test_case(test_case, response, order)
    IN test_case # None =>
         /\ ~stdio.raised
         /\ stdio.case.result = http.result
         /\ stdio.case.error_message = http.error_message

\* C38: whatever the close step does, send_stdio_session_requests returns
\* the responses its loop has collected: a server that has not exited 5 s
\* after its stdin was closed does not turn them into no-response slots.
C38_CloseKeepsResponses ==
  [][(pc = "close" /\ pc' = "returned") => responses' = responses]_vars

\* --mode selects the mode
Selected(m) == mode \in {m, "both"}

\* C39: main exits with status 0 only if every selected mode has run its
\* test cases and all of them passed; a selected mode that ended with
\* errors > 0 makes the exit status non-zero.
C39_ExitZeroOnlyIfAllPassed ==
  exit_status = SysExit(0) =>
    \A m \in {"stdio", "http"} :
      LET r == IF m = "stdio" THEN stdio_results ELSE http_results
      IN Selected(m) =>
           /\ r # None
           /\ r.total > 0
           /\ r.passed = r.total
           /\ r.errors = 0

(***************************************************************************)
(* SpecReader: the session loop of send_stdio_session_requests with the    *)
(* reader-thread strategy of read_with_timeout (sys.platform == "win32").  *)
(* Each read attempt creates its own result_queue and its own reader       *)
(* thread; the thread blocks in process.stdout.readline() and puts the     *)
(* line into the queue of its attempt, the caller waits on that queue for  *)
(* at most the timeout.  SimpleMCPTester.send_request has the same         *)
(* read_with_timeout, one call per request.                                *)
(***************************************************************************)
\* the requests of the session
ReaderCases == SubSeq(create_test_cases, 1, MaxRequests)

\* "id" in request: the loop reads a response for it
ExpectsResponse(k) == HasKey(ReaderCases[k].request, "id")

\* what readline returns at end of file: ''
EndOfFile == [reply_to |-> 0]
\* the line the server puts out in reply to request k
ReplyLine(k) == [reply_to |-> k]

\* what a reader thread puts into its queue: the line, and which thread
\* has read it
QueueItem(reader, line) == [reader |-> reader, line |-> line]
\* read_with_timeout has not been called for the request; queue.Empty
NotCalled == [t |-> "not called"]
TimedOut == [t |-> "queue.Empty"]

\* the position after the loop iteration of request k
AfterRead(k) == IF k < Len(ReaderCases) THEN "write" ELSE "close"

InitReader ==
  /\ ValidateIdle
  /\ SessionIdle
  /\ HttpIdle
  /\ RunIdle
  /\ SimpleIdle
  /\ reader_at = "write"
  /\ request_no = 1
  /\ server_stdout = <<>>
  /\ replied = {}
  /\ server_state = "running"
  /\ readers = [k \in 1..Len(ReaderCases) |-> "none"]
  /\ result_queue = [k \in 1..Len(ReaderCases) |-> <<>>]
  /\ returned_line = [k \in 1..Len(ReaderCases) |-> NotCalled]

notreader == <<vvars, svars, hvars, rvars, tvars>>

\* a message without "id" is written; no read
SendNotification ==
  /\ reader_at = "write"
  /\ ~ExpectsResponse(request_no)
  /\ server_state = "running"
  /\ reader_at' = AfterRead(request_no)
  /\ request_no' = IF request_no < Len(ReaderCases) THEN request_no + 1 ELSE request_no
  /\ UNCHANGED <<notreader, server_stdout, replied, server_state, readers, result_queue,
                 returned_line>>

\* a request is written and flushed; read_with_timeout creates the queue
\* of this attempt and starts its reader thread
SendRequest ==
  /\ reader_at = "write"
  /\ ExpectsResponse(request_no)
  /\ server_state = "running"
  /\ readers' = [readers EXCEPT ![request_no] = "blocked"]
  /\ reader_at' = "get"
  /\ UNCHANGED <<notreader, request_no, server_stdout, replied, server_state, result_queue,
                 returned_line>>

\* the write to a server that has exited raises BrokenPipeError: the
\* except clause, the session returns
SendRaises ==
  /\ reader_at = "write"
  /\ server_state = "exited"
  /\ reader_at' = "returned"
  /\ UNCHANGED <<notreader, request_no, server_stdout, replied, server_state, readers,
                 result_queue, returned_line>>

\* reader(): readline() returns in thread j and the line goes into the
\* queue of the attempt under way, whichever attempt has started the thread
ReaderReadline_SharedQueue(j) ==
  /\ readers[j] = "blocked"
  /\ server_stdout # <<>> \/ server_state = "exited"
  /\ LET line == IF server_stdout # <<>> THEN Head(server_stdout) ELSE EndOfFile
     IN result_queue' = [result_queue EXCEPT ![request_no] = Append(@, QueueItem(j, line))]
  /\ server_stdout' = IF server_stdout # <<>> THEN Tail(server_stdout) ELSE server_stdout
  /\ readers' = [readers EXCEPT ![j] = "done"]
  /\ UNCHANGED <<notreader, reader_at, request_no, replied, server_state, returned_line>>

\* reader(): process.stdout.readline() returns in thread j, with the next
\* line of the pipe or with '' at end of file, and result_queue.put(line)
\* puts it into the queue of the attempt that has started thread j
ReaderReadline(j) ==
  /\ readers[j] = "blocked"
  /\ server_stdout # <<>> \/ server_state = "exited"
  /\ LET line == IF server_stdout # <<>> THEN Head(server_stdout) ELSE EndOfFile
     IN result_queue' = [result_queue EXCEPT ![j] = Append(@, QueueItem(j, line))]
  /\ server_stdout' = IF server_stdout # <<>> THEN Tail(server_stdout) ELSE server_stdout
  /\ readers' = [readers EXCEPT ![j] = "done"]
  /\ UNCHANGED <<notreader, reader_at, request_no, replied, server_state, returned_line>>

\* result_queue.get(timeout=timeout) returns what the queue of this attempt
\* holds
QueueGet ==
  /\ reader_at = "get"
  /\ result_queue[request_no] # <<>>
  /\ returned_line' = [returned_line EXCEPT ![request_no] = Head(result_queue[request_no])]
  /\ result_queue' = [result_queue EXCEPT ![request_no] = Tail(@)]
  /\ reader_at' = AfterRead(request_no)
  /\ request_no' = IF request_no < Len(ReaderCases) THEN request_no + 1 ELSE request_no
  /\ UNCHANGED <<notreader, server_stdout, replied, server_state, readers>>

\* result_queue.get raises queue.Empty at the deadline: read_with_timeout
\* returns None and leaves its reader thread where it is
QueueGetTimesOut ==
  /\ reader_at = "get"
  /\ result_queue[request_no] = <<>>
  /\ returned_line' = [returned_line EXCEPT ![request_no] = TimedOut]
  /\ reader_at' = AfterRead(request_no)
  /\ request_no' = IF request_no < Len(ReaderCases) THEN request_no + 1 ELSE request_no
  /\ UNCHANGED <<notreader, server_stdout, replied, server_state, readers, result_queue>>

\* process.stdin.close(), process.wait(timeout=5): the session returns
\* (SpecStdio has the outcomes of the close step)
ReaderSessionReturns ==
  /\ reader_at = "close"
  /\ reader_at' = "returned"
  /\ UNCHANGED <<notreader, request_no, server_stdout, replied, server_state, readers,
                 result_queue, returned_line>>

\* the requests written to the server so far
Written ==
  {k \in 1..Len(ReaderCases) :
     k < request_no \/ (k = request_no /\ reader_at # "write")}

\* the server puts out its reply to a request it has received, at any time
\* after the request
ReaderServerReplies(k) ==
  /\ server_state = "running"
  /\ k \in Written \ replied
  /\ ExpectsResponse(k)
  /\ server_stdout' = Append(server_stdout, ReplyLine(k))
  /\ replied' = replied \cup {k}
  /\ UNCHANGED <<notreader, reader_at, request_no, server_state, readers, result_queue,
                 returned_line>>

\* the server process exits
ReaderServerExits ==
  /\ server_state = "running"
  /\ server_state' = "exited"
  /\ UNCHANGED <<notreader, reader_at, request_no, server_stdout, replied, readers,
                 result_queue, returned_line>>

NextReader ==
  \/ SendNotification
  \/ SendRequest
  \/ SendRaises
  \/ \E j \in 1..Len(ReaderCases) : ReaderReadline(j)
  \/ QueueGet
  \/ QueueGetTimesOut
  \/ ReaderSessionReturns
  \/ \E k \in 1..Len(ReaderCases) : ReaderServerReplies(k)
  \/ ReaderServerExits

SpecReader == InitReader /\ [][NextReader]_vars

(***************************************************************************)
(* Properties of the reader-thread strategy, checked under SpecReader.     *)
(***************************************************************************)
\* the read attempts whose caller has stopped waiting at its deadline
Abandoned == {k \in 1..Len(ReaderCases) : returned_line[k] = TimedOut}

\* C34: a reader thread whose caller's deadline has expired delivers its
\* line only to the queue of its own, abandoned attempt: every queue holds
\* only what the thread of its attempt has read, and what a read attempt
\* returns is a line its own reader thread has read; no line read for an
\* abandoned attempt is returned to another attempt.
C34_OwnQueueOnly ==
  \A k \in 1..Len(ReaderCases) :
    /\ \A n \in 1..Len(result_queue[k]) : result_queue[k][n].reader = k
    /\ returned_line[k] \notin {NotCalled, TimedOut} =>
         /\ returned_line[k].reader = k
         /\ returned_line[k].reader \notin Abandoned

\* an abandoned reader thread has put its line into its abandoned queue, and
\* a later attempt has returned a line
C34_Witness ==
  \E j \in Abandoned :
    /\ result_queue[j] # <<>>
    /\ result_queue[j][1].line # EndOfFile
    /\ \E k \in (j + 1)..Len(ReaderCases) :
         /\ returned_line[k] \notin {NotCalled, TimedOut}
         /\ returned_line[k].line # EndOfFile

\* the lines reader thread j has taken from the server's stdout
Consumed(j) ==
  {result_queue[j][n].line : n \in 1..Len(result_queue[j])}
    \cup (IF returned_line[j] \in {NotCalled, TimedOut} THEN {} ELSE {returned_line[j].line})

\* C35: at most one reader thread is blocked reading the server's stdout at
\* any time, and the reply to a request is never consumed by the reader
\* thread of an earlier request that was abandoned at its timeout.
C35_OneReaderAtATime ==
  /\ Cardinality({j \in 1..Len(ReaderCases) : readers[j] = "blocked"}) <= 1
  /\ \A j \in 1..Len(ReaderCases) : \A line \in Consumed(j) : line.reply_to <= j

(***************************************************************************)
(* SpecSimple and SpecTail: SimpleMCPTester of test-mcp-server.py.  A      *)
(* caller (main, or other code that holds the tester) calls run_tests,     *)
(* start_process and stop_process, one call at a time; run_tests starts    *)
(* the persistent server, runs its test loop and test_http_mode, and stops *)
(* the server in its finally clause.  Each server process writes lines to  *)
(* its stderr pipe while it runs and may exit at any time; the drain       *)
(* thread of each start appends what it reads to self._stderr_buffer.      *)
(* SpecSimple lets the caller start a server more than once and the        *)
(* servers write a few lines; SpecTail has one start and more lines than   *)
(* the buffer keeps.                                                       *)
(***************************************************************************)
\* len(self._stderr_buffer) > 200
tail_lines == 200
\* for i in range(20)
readiness_rounds == 20

\* the starts of a server process the caller makes in SpecSimple
MaxStarts == 2
\* the lines the servers write to stderr in SpecSimple
MaxStderrLines == 1
\* the lines the server writes to stderr beyond tail_lines in SpecTail
MaxExtraLines == 3
\* the lines a stderr pipe holds before the server has to wait
MaxPipeLines == 2

\* the Popen object of the p-th server process, the Thread object of the
\* n-th drain
PopenObject(p) == [t |-> "Popen", pid |-> p]
ThreadObject(n) == [t |-> "Thread", n |-> n]
\* the n-th line server process p has written to stderr
StderrLine(p, n) == [pid |-> p, n |-> n]

\* a server process that has just been started
Started == [state |-> "running", written |-> 0, read |-> 0]

InitTester ==
  /\ ValidateIdle
  /\ SessionIdle
  /\ HttpIdle
  /\ RunIdle
  /\ ReaderIdle
  /\ simple_at = "caller"
  /\ simple_then = ""
  /\ tester_process = None
  /\ stderr_thread = None
  /\ stderr_buffer = <<>>
  /\ servers = <<>>
  /\ drains = <<>>
  /\ http_server = "none"
  /\ attempt = 0
  /\ run_ended = ""

InitSimple ==
  /\ InitTester
  /\ budget = [starts |-> MaxStarts, lines |-> MaxStderrLines]

InitTail ==
  /\ InitTester
  /\ budget = [starts |-> 1, lines |-> tail_lines + MaxExtraLines]

nottester == <<vvars, svars, hvars, rvars, wvars>>
persistent == <<tester_process, stderr_thread, servers, budget>>
httptest == <<http_server, attempt>>
drainvars == <<stderr_buffer, drains>>

\* the caller calls run_tests, which calls start_process before its try
RunTests ==
  /\ simple_at = "caller"
  /\ tester_process # None \/ budget.starts > 0
  /\ simple_at' = "start"
  /\ simple_then' = "run_tests"
  /\ run_ended' = ""
  /\ UNCHANGED <<nottester, persistent, httptest, drainvars>>

\* the caller calls start_process
CallStartProcess ==
  /\ simple_at = "caller"
  /\ tester_process # None \/ budget.starts > 0
  /\ simple_at' = "start"
  /\ simple_then' = "caller"
  /\ run_ended' = ""
  /\ UNCHANGED <<nottester, persistent, httptest, drainvars>>

\* the caller calls stop_process
CallStopProcess ==
  /\ simple_at = "caller"
  /\ simple_at' = "stop"
  /\ simple_then' = "caller"
  /\ run_ended' = ""
  /\ UNCHANGED <<nottester, persistent, httptest, drainvars>>

\* start_process returns to run_tests, which enters its try, or to the
\* caller
StartProcessReturns ==
  /\ simple_at' = IF simple_then = "run_tests" THEN "run:loop" ELSE "caller"
  /\ simple_then' = ""
  /\ UNCHANGED run_ended

\* an exception leaves start_process; in run_tests the call is before the
\* try, so the exception leaves run_tests as well
StartProcessRaises ==
  /\ simple_at' = "caller"
  /\ simple_then' = ""
  /\ run_ended' = IF simple_then = "run_tests" THEN "raised" ELSE run_ended

\* if self.process: return
StartProcessNoop ==
  /\ simple_at = "start"
  /\ tester_process # None
  /\ StartProcessReturns
  /\ UNCHANGED <<nottester, persistent, httptest, drainvars>>

\* self.process = subprocess.Popen(...)
StartProcessPopen ==
  /\ simple_at = "start"
  /\ tester_process = None
  /\ budget.starts > 0
  /\ servers' = Append(servers, Started)
  /\ tester_process' = PopenObject(Len(servers) + 1)
  /\ budget' = [budget EXCEPT !.starts = @ - 1]
  /\ simple_at' = "start:drain"
  /\ UNCHANGED <<nottester, simple_then, stderr_thread, httptest, drainvars, run_ended>>

\* subprocess.Popen raises
StartProcessPopenRaises ==
  /\ simple_at = "start"
  /\ tester_process = None
  /\ StartProcessRaises
  /\ UNCHANGED <<nottester, persistent, httptest, drainvars>>

\* _start_stderr_drain: the Thread object is kept in self._stderr_thread
\* and started
StartStderrDrain ==
  /\ simple_at = "start:drain"
  /\ stderr_thread = None
  /\ drains' = Append(drains, [at |-> "started", stream |-> 0])
  /\ stderr_thread' = ThreadObject(Len(drains) + 1)
  /\ StartProcessReturns
  /\ UNCHANGED <<nottester, tester_process, servers, budget, httptest, stderr_buffer>>

\* _start_stderr_drain: Thread.start() raises RuntimeError; no thread runs
StartStderrDrainRaises ==
  /\ simple_at = "start:drain"
  /\ stderr_thread = None
  /\ stderr_thread' = ThreadObject(0)
  /\ StartProcessRaises
  /\ UNCHANGED <<nottester, tester_process, servers, budget, httptest, drainvars>>

\* stop_process returns: to the caller, or to the finally clause of
\* run_tests, which then returns or lets its exception go on
StopProcessReturns ==
  /\ simple_at' = "caller"
  /\ simple_then' = ""
  /\ run_ended' = CASE simple_then = "run:return" -> "returned"
                    [] simple_then = "run:reraise" -> "raised"
                    [] OTHER -> run_ended

\* if self.process is false: nothing to stop
StopProcessNothing ==
  /\ simple_at = "stop"
  /\ tester_process = None
  /\ StopProcessReturns
  /\ UNCHANGED <<nottester, persistent, httptest, drainvars>>

\* self.process.stdin.close(); self.process.terminate(); then
\* wait(timeout=5)
StopProcessTerminate ==
  /\ simple_at = "stop"
  /\ tester_process # None
  /\ simple_at' = "stop:wait"
  /\ UNCHANGED <<nottester, simple_then, persistent, httptest, drainvars, run_ended>>

\* wait(timeout=5) returns; finally self.process = None and
\* self._stderr_thread = None
StopProcessWaitReturns ==
  /\ simple_at = "stop:wait"
  /\ servers[tester_process.pid].state = "exited"
  /\ tester_process' = None
  /\ stderr_thread' = None
  /\ StopProcessReturns
  /\ UNCHANGED <<nottester, servers, budget, httptest, drainvars>>

\* wait(timeout=5) raises TimeoutExpired: the bare except, poll() is None,
\* kill(); finally the two attributes are cleared
StopProcessWaitTimesOut ==
  /\ simple_at = "stop:wait"
  /\ servers[tester_process.pid].state = "running"
  /\ servers' = [servers EXCEPT ![tester_process.pid].state = "exited"]
  /\ tester_process' = None
  /\ stderr_thread' = None
  /\ StopProcessReturns
  /\ UNCHANGED <<nottester, budget, httptest, drainvars>>

\* the for loop over the tests ends
TestLoopDone ==
  /\ simple_at = "run:loop"
  /\ simple_at' = "http:port"
  /\ UNCHANGED <<nottester, simple_then, persistent, httptest, drainvars, run_ended>>

\* an exception leaves the test loop: the finally clause
TestLoopRaises ==
  /\ simple_at = "run:loop"
  /\ simple_at' = "stop"
  /\ simple_then' = "run:reraise"
  /\ UNCHANGED <<nottester, persistent, httptest, drainvars, run_ended>>

\* test_http_mode returns with no process started: port 8080 is in use or
\* requests is missing (return True), or Popen raises (return False);
\* run_tests goes on to its finally clause
TestHttpNotStarted ==
  /\ simple_at = "http:port"
  /\ simple_at' = "stop"
  /\ simple_then' = "run:return"
  /\ UNCHANGED <<nottester, persistent, httptest, drainvars, run_ended>>

\* process = subprocess.Popen(...)
TestHttpPopen ==
  /\ simple_at = "http:port"
  /\ http_server' = "running"
  /\ attempt' = 0
  /\ simple_at' = "http:ready"
  /\ UNCHANGED <<nottester, simple_then, persistent, drainvars, run_ended>>

\* process.poll() is not None: return False
TestHttpDied ==
  /\ simple_at = "http:ready"
  /\ attempt < readiness_rounds
  /\ http_server = "exited"
  /\ simple_at' = "http:finally"
  /\ attempt' = 0
  /\ UNCHANGED <<nottester, simple_then, persistent, http_server, drainvars, run_ended>>

\* the process runs and the probe fails or is not answered with 200: the
\* next round
TestHttpRound ==
  /\ simple_at = "http:ready"
  /\ attempt < readiness_rounds
  /\ http_server = "running"
  /\ attempt' = attempt + 1
  /\ UNCHANGED <<nottester, simple_at, simple_then, persistent, http_server, drainvars,
                 run_ended>>

\* the process runs and the probe is answered with 200: break
TestHttpReady ==
  /\ simple_at = "http:ready"
  /\ attempt < readiness_rounds
  /\ http_server = "running"
  /\ simple_at' = "http:initialize"
  /\ attempt' = 0
  /\ UNCHANGED <<nottester, simple_then, persistent, http_server, drainvars, run_ended>>

\* the else of the loop: process.terminate(), process.wait(timeout=5),
\* return False; a TimeoutExpired of the wait is caught by except
\* Exception, which returns False too
TestHttpNotReady ==
  /\ simple_at = "http:ready"
  /\ attempt = readiness_rounds
  /\ simple_at' = "http:finally"
  /\ attempt' = 0
  /\ UNCHANGED <<nottester, simple_then, persistent, http_server, drainvars, run_ended>>

\* initialize is answered with another status or without a result:
\* process.terminate(), return False; or the POST raises: return False
TestHttpInitializeFails ==
  /\ simple_at = "http:initialize"
  /\ simple_at' = "http:finally"
  /\ UNCHANGED <<nottester, simple_then, persistent, httptest, drainvars, run_ended>>

\* initialize has a result; the notification and tools/list are posted and
\* success is returned, or a POST raises and False is returned
TestHttpReturns ==
  /\ simple_at = "http:initialize"
  /\ http_server = "running"
  /\ simple_at' = "http:finally"
  /\ UNCHANGED <<nottester, simple_then, persistent, httptest, drainvars, run_ended>>

\* test_http_mode returns to run_tests, which goes on to its finally clause
TestHttpModeReturns ==
  /\ simple_at' = "stop"
  /\ simple_then' = "run:return"
  /\ UNCHANGED run_ended

\* finally: process.poll() is not None, nothing to clean up
TestHttpFinallyExited ==
  /\ simple_at = "http:finally"
  /\ http_server = "exited"
  /\ TestHttpModeReturns
  /\ UNCHANGED <<nottester, persistent, httptest, drainvars>>

\* finally: the process runs: process.terminate(), then wait(timeout=5)
TestHttpFinallyTerminate ==
  /\ simple_at = "http:finally"
  /\ http_server = "running"
  /\ simple_at' = "http:finally:wait"
  /\ UNCHANGED <<nottester, simple_then, persistent, httptest, drainvars, run_ended>>

\* wait(timeout=5) returns
TestHttpFinallyWaitReturns ==
  /\ simple_at = "http:finally:wait"
  /\ http_server = "exited"
  /\ TestHttpModeReturns
  /\ UNCHANGED <<nottester, persistent, httptest, drainvars>>

\* wait(timeout=5) raises TimeoutExpired: process.kill(), process.wait()
TestHttpFinallyWaitTimesOut ==
  /\ simple_at = "http:finally:wait"
  /\ http_server = "running"
  /\ http_server' = "exited"
  /\ TestHttpModeReturns
  /\ UNCHANGED <<nottester, persistent, attempt, drainvars>>

\* the HTTP server process of test_http_mode exits
TestHttpServerExits ==
  /\ http_server = "running"
  /\ http_server' = "exited"
  /\ UNCHANGED <<nottester, simple_at, simple_then, persistent, attempt, drainvars, run_ended>>

\* drain() begins in thread n: self.process.stderr is evaluated now; with
\* self.process None it raises AttributeError and the thread ends
DrainBegins(n) ==
  /\ n \in 1..Len(drains)
  /\ drains[n].at = "started"
  /\ drains' = [drains EXCEPT ![n] =
                  IF tester_process = None THEN [at |-> "finished", stream |-> 0]
                  ELSE [at |-> "iterating", stream |-> tester_process.pid]]
  /\ UNCHANGED <<nottester, simple_at, simple_then, persistent, httptest, stderr_buffer,
                 run_ended>>

\* for line in stream: the next line of the pipe;
\* self._stderr_buffer.append(line)
DrainReads(n) ==
  /\ n \in 1..Len(drains)
  /\ drains[n].at = "iterating"
  /\ LET p == drains[n].stream IN
       /\ servers[p].read < servers[p].written
       /\ stderr_buffer' = Append(stderr_buffer, StderrLine(p, servers[p].read + 1))
       /\ servers' = [servers EXCEPT ![p].read = @ + 1]
  /\ drains' = [drains EXCEPT ![n].at = "appended"]
  /\ UNCHANGED <<nottester, simple_at, simple_then, tester_process, stderr_thread, budget,
                 httptest, run_ended>>

\* the trim dropping the line just appended: pop() for pop(0)
DrainTrims_DropsNewest(n) ==
  /\ n \in 1..Len(drains)
  /\ drains[n].at = "appended"
  /\ stderr_buffer' = IF Len(stderr_buffer) > tail_lines
                      THEN SubSeq(stderr_buffer, 1, Len(stderr_buffer) - 1)
                      ELSE stderr_buffer
  /\ drains' = [drains EXCEPT ![n].at = "iterating"]
  /\ UNCHANGED <<nottester, simple_at, simple_then, persistent, httptest, run_ended>>

\* if len(self._stderr_buffer) > 200: self._stderr_buffer.pop(0)
DrainTrims(n) ==
  /\ n \in 1..Len(drains)
  /\ drains[n].at = "appended"
  /\ stderr_buffer' = IF Len(stderr_buffer) > tail_lines THEN Tail(stderr_buffer)
                      ELSE stderr_buffer
  /\ drains' = [drains EXCEPT ![n].at = "iterating"]
  /\ UNCHANGED <<nottester, simple_at, simple_then, persistent, httptest, run_ended>>

\* a drain whose loop waits on after the end of its stream
DrainEnds_WaitsOn(n) ==
  /\ n \in 1..Len(drains)
  /\ drains[n].at = "iterating"
  /\ servers[drains[n].stream].state = "exited"
  /\ servers[drains[n].stream].read = servers[drains[n].stream].written
  /\ UNCHANGED vars

\* the pipe is empty and its process has ended: the for loop ends at end
\* of file and the thread with it
DrainEnds(n) ==
  /\ n \in 1..Len(drains)
  /\ drains[n].at = "iterating"
  /\ servers[drains[n].stream].state = "exited"
  /\ servers[drains[n].stream].read = servers[drains[n].stream].written
  /\ drains' = [drains EXCEPT ![n].at = "finished"]
  /\ UNCHANGED <<nottester, simple_at, simple_then, persistent, httptest, stderr_buffer,
                 run_ended>>

\* the steps of drain thread n
DrainStep(n) == DrainBegins(n) \/ DrainReads(n) \/ DrainTrims(n) \/ DrainEnds(n)

\* server process p writes a line to stderr
ServerWritesStderr(p) ==
  /\ p \in 1..Len(servers)
  /\ servers[p].state = "running"
  /\ budget.lines > 0
  /\ servers[p].written - servers[p].read < MaxPipeLines
  /\ servers' = [servers EXCEPT ![p].written = @ + 1]
  /\ budget' = [budget EXCEPT !.lines = @ - 1]
  /\ UNCHANGED <<nottester, simple_at, simple_then, tester_process, stderr_thread, httptest,
                 drainvars, run_ended>>

\* server process p exits
PersistentServerExits(p) ==
  /\ p \in 1..Len(servers)
  /\ servers[p].state = "running"
  /\ servers' = [servers EXCEPT ![p].state = "exited"]
  /\ UNCHANGED <<nottester, simple_at, simple_then, tester_process, stderr_thread, budget,
                 httptest, drainvars, run_ended>>

NextSimple ==
  \/ RunTests
  \/ CallStartProcess
  \/ CallStopProcess
  \/ StartProcessNoop
  \/ StartProcessPopen
  \/ StartProcessPopenRaises
  \/ StartStderrDrain
  \/ StartStderrDrainRaises
  \/ StopProcessNothing
  \/ StopProcessTerminate
  \/ StopProcessWaitReturns
  \/ StopProcessWaitTimesOut
  \/ TestLoopDone
  \/ TestLoopRaises
  \/ TestHttpNotStarted
  \/ TestHttpPopen
  \/ TestHttpDied
  \/ TestHttpRound
  \/ TestHttpReady
  \/ TestHttpNotReady
  \/ TestHttpInitializeFails
  \/ TestHttpReturns
  \/ TestHttpFinallyExited
  \/ TestHttpFinallyTerminate
  \/ TestHttpFinallyWaitReturns
  \/ TestHttpFinallyWaitTimesOut
  \/ TestHttpServerExits
  \/ \E n \in 1..MaxStarts : DrainStep(n)
  \/ \E p \in 1..MaxStarts : ServerWritesStderr(p)
  \/ \E p \in 1..MaxStarts : PersistentServerExits(p)

SpecSimple == InitSimple /\ [][NextSimple]_vars
SpecTail == InitTail /\ [][NextSimple]_vars

\* the tester used through start_process and stop_process alone: what the
\* drain threads meet is the same as under run_tests
NextDrain ==
  \/ CallStartProcess
  \/ CallStopProcess
  \/ StartProcessNoop
  \/ StartProcessPopen
  \/ StartProcessPopenRaises
  \/ StartStderrDrain
  \/ StartStderrDrainRaises
  \/ StopProcessNothing
  \/ StopProcessTerminate
  \/ StopProcessWaitReturns
  \/ StopProcessWaitTimesOut
  \/ \E n \in 1..MaxStarts : DrainStep(n)
  \/ \E p \in 1..MaxStarts : ServerWritesStderr(p)
  \/ \E p \in 1..MaxStarts : PersistentServerExits(p)

SpecDrain == InitSimple /\ [][NextDrain]_vars

\* a drain thread is a thread of its own: a step of it that can be taken is
\* taken
SpecDrainLive == SpecDrain /\ \A n \in 1..MaxStarts : WF_vars(DrainStep(n))

\* a drain thread has appended a line and not yet trimmed the buffer
BetweenAppendAndTrim == \E n \in 1..Len(drains) : drains[n].at = "appended"

\* the last k of the first r lines server process p has written to stderr
LastLines(p, r, k) == [i \in 1..k |-> StderrLine(p, r - k + i)]

\* C31: after a step of the drain (append and trim) the stderr tail buffer
\* of SimpleMCPTester holds at most 200 lines, and they are the most recent
\* lines read from the server's standard error, in the order written.
C31_TailOfStderr ==
  (Len(servers) = 1 /\ ~BetweenAppendAndTrim) =>
    /\ Len(stderr_buffer) <= tail_lines
    /\ Len(stderr_buffer) = IF servers[1].read < tail_lines THEN servers[1].read
                            ELSE tail_lines
    /\ stderr_buffer = LastLines(1, servers[1].read, Len(stderr_buffer))

\* more than 200 lines have been read and the oldest were dropped
C31_Witness ==
  /\ Len(servers) = 1
  /\ ~BetweenAppendAndTrim
  /\ servers[1].read > tail_lines
  /\ Len(stderr_buffer) = tail_lines
  /\ Head(stderr_buffer) = StderrLine(1, servers[1].read - tail_lines + 1)

\* C32: the stderr tail buffer belongs to one session only: while a server
\* process is held after stop_process and start_process, every line of the
\* buffer was written by that process.
C32_BufferOfOneSession ==
  tester_process # None =>
    \A i \in 1..Len(stderr_buffer) : stderr_buffer[i].pid = tester_process.pid

\* drain thread n has been started and has not ended
Live(n) == n <= Len(drains) /\ drains[n].at # "finished"

\* the stream drain thread n reads has been closed by its process ending
StreamClosed(n) ==
  /\ n <= Len(drains)
  /\ drains[n].at \in {"iterating", "appended"}
  /\ servers[drains[n].stream].state = "exited"

RunningServers == {p \in 1..Len(servers) : servers[p].state = "running"}

\* test_http_mode is being executed
InTestHttpMode ==
  simple_at \in {"http:port", "http:ready", "http:initialize", "http:finally",
                 "http:finally:wait"}

\* C40: SimpleMCPTester keeps at most one persistent server process, no
\* persistent server runs once run_tests has returned or raised, and no
\* HTTP server of test_http_mode runs outside test_http_mode.
C40_NoServerLeftBehind ==
  /\ Cardinality(RunningServers) <= 1
  /\ (simple_at = "caller" /\ run_ended # "") => RunningServers = {}
  /\ ~InTestHttpMode => http_server # "running"

====
